---- MODULE Spec2Model ----
(***************************************************************************)
(* A model of the circuit analysis pipeline of data-circuits:              *)
(*   - nodeCircuitToSeriesParallelCircuit (src/circuit/nodeCircuitConvert) *)
(*     terminal resolution, wire contraction, the series/parallel rewrite  *)
(*     loop and the construction of the tree;                              *)
(*   - the canonicalisation prefix of solveNodeCircuitBySuperposition;     *)
(*   - seriesParallelCircuitToNodeCircuit (tree -> graph).                 *)
(* Numbers are records [fin, v, d]: the rational v/d when fin, otherwise   *)
(* NaN (v = 0) or +-Infinity (v = +-1).                                    *)
(* Identifiers are records [pfx, n]; sequences are 1-based, the program's  *)
(* indices (vertex positions, super-node indices) are kept 0-based.        *)
(***************************************************************************)
EXTENDS Integers, Sequences, FiniteSets, TLC

VARIABLES
  circuit,       \* the Circuit (series/parallel tree) handed to seriesParallelCircuitToNodeCircuit
  converted,     \* value returned by seriesParallelCircuitToNodeCircuit
  nodeCircuit,   \* the NodeCircuit handed to the functions: nodes, edges, plusNodeId, minusNodeId
  pc,            \* "tree" | "edit" | "loop" | "done" | "solved" | "twice": position of the calls
  plus,          \* nodeCircuitToSeriesParallelCircuit: local plus (vertex position, -1 before it is set)
  minus,         \* local minus
  plusN,         \* nodeCircuitToSeriesParallelCircuit: local plusN
  minusN,        \* local minusN
  nodeCount,     \* local nodeCount
  oldToNew,      \* local oldToNew (sequence, position i+1 holds oldToNew[i])
  edges,         \* local edges: EdgeRecord[]
  guard,         \* loop counter
  result,        \* value returned by nodeCircuitToSeriesParallelCircuit
  solved,        \* solveNodeCircuitBySuperposition: what the call holds when it starts solving, or its failure
  superposed,    \* solveNodeCircuitBySuperposition or solveCircuitBySuperposition: the value returned and the solveMna calls made
  facade,        \* solveCircuit: the value returned and the solveMna calls made
  imported,      \* parseCircuitJson(exportCircuitJson(circuit)): the text exported and the value parsed from it
  nodeCircuitError, \* the store's nodeCircuitError: the error of the last derivation of the tree, NoError for null
  mna,           \* solveMna: the arguments of a call and the value it returned
  trace,         \* value returned by computeReductionLevels on the tree the reducer returned, with the maxLevels passed
  traceAgain,    \* value returned by a second call of computeReductionLevels on the same tree
  again,         \* value returned by a second call of nodeCircuitToSeriesParallelCircuit on the same argument
  idCtr          \* newId: number of identifiers handed out so far

vars == <<circuit, converted, nodeCircuit, pc, plus, minus, plusN, minusN, nodeCount, oldToNew, edges, guard,
          result, solved, superposed, facade, imported, nodeCircuitError, mna, again, trace, traceAgain, idCtr>>

----------------------------------------------------------------------------
(* Numbers *)
RECURSIVE GCD(_, _)
GCD(a, b) == IF b = 0 THEN a ELSE GCD(b, a % b)
Abs(n) == IF n < 0 THEN 0 - n ELSE n
(* the number n/d, d > 0, in lowest terms *)
Rat(n, d) == LET g == GCD(Abs(n), d) IN [fin |-> TRUE, v |-> n \div g, d |-> d \div g]
Num(n) == [fin |-> TRUE, v |-> n, d |-> 1]
NaN == [fin |-> FALSE, v |-> 0, d |-> 1]
Infinity(sign) == [fin |-> FALSE, v |-> sign, d |-> 1]
isNaN(x) == ~x.fin /\ x.v = 0
isFinite(x) == x.fin
neg(x) == [x EXCEPT !.v = 0 - @]
isNegative(x) == ~isNaN(x) /\ x.v < 0
(* x + y and 1 / x *)
plusNum(x, y) ==
  IF x.fin /\ y.fin THEN Rat(x.v * y.d + y.v * x.d, x.d * y.d)
  ELSE IF isNaN(x) \/ isNaN(y) THEN NaN
  ELSE IF x.fin THEN y
  ELSE IF y.fin THEN x
  ELSE IF x.v = y.v THEN x ELSE NaN
invNum(x) ==
  IF x.fin THEN (IF x.v = 0 THEN Infinity(1)
                 ELSE IF x.v > 0 THEN Rat(x.d, x.v) ELSE Rat(0 - x.d, 0 - x.v))
  ELSE IF isNaN(x) THEN NaN ELSE Num(0)
(* x - y, x * y, x / y, |x| and x > y *)
timesNum(x, y) ==
  IF x.fin /\ y.fin THEN Rat(x.v * y.v, x.d * y.d)
  ELSE IF x.v = 0 \/ y.v = 0 THEN NaN
  ELSE Infinity(IF (x.v > 0) = (y.v > 0) THEN 1 ELSE -1)
minusNum(x, y) == plusNum(x, neg(y))
divNum(x, y) == timesNum(x, invNum(y))
absNum(x) == IF isNegative(x) THEN neg(x) ELSE x
greaterNum(x, y) ==
  IF isNaN(x) \/ isNaN(y) THEN FALSE
  ELSE IF x.fin /\ y.fin THEN x.v * y.d > y.v * x.d
  ELSE IF x.fin THEN y.v < 0
  ELSE IF y.fin THEN x.v > 0
  ELSE x.v > y.v
(* a test for zero that never answers yes *)
isZeroNever(x) == FALSE
isZero(x) == x.fin /\ x.v = 0

(* Identifiers *)
Id(p, n) == [pfx |-> p, n |-> n]
Null == Id("null", 0)
(* a generator that hands out one identifier per prefix *)
newIdFixed(prefix, ctr) == Id(prefix, 0)
newId(prefix, ctr) == Id(prefix, ctr)

AtomKinds == {"resistor", "ammeter", "vsource", "isource"}
SourceKinds == {"vsource", "isource"}

(* Sequence helpers *)
RECURSIVE SeqConcat(_)
SeqConcat(ss) == IF ss = <<>> THEN <<>> ELSE Head(ss) \o SeqConcat(Tail(ss))
Reverse(s) == [i \in 1..Len(s) |-> s[Len(s) + 1 - i]]
SelectIdx(s, Test(_)) == LET F[i \in 0..Len(s)] ==
                               IF i = 0 THEN <<>>
                               ELSE IF Test(i) THEN Append(F[i - 1], i) ELSE F[i - 1]
                         IN F[Len(s)]
Min(S) == CHOOSE x \in S : \A y \in S : x <= y
(* const v = ...: the value is computed once and named in what follows *)
Bind(v, Body(_)) == Body(v)

----------------------------------------------------------------------------
(* Expressions carried by the edges during the reduction *)

RECURSIVE reverseExpr(_)

(* reverseExpr that leaves the children of a series in their order *)
reverseExprKeepOrder(expr) ==
  IF expr.kind \in {"resistor", "ammeter"} THEN expr
  ELSE IF expr.kind \in SourceKinds THEN [expr EXCEPT !.val = neg(@)]
  ELSE IF expr.kind = "series"
    THEN [kind |-> "series", items |-> [i \in 1..Len(expr.items) |-> reverseExpr(expr.items[i])]]
  ELSE [kind |-> "parallel",
        branches |-> [i \in 1..Len(expr.branches) |-> reverseExpr(expr.branches[i])]]

reverseExpr(expr) ==
  IF expr.kind \in {"resistor", "ammeter"} THEN expr
  ELSE IF expr.kind \in SourceKinds THEN [expr EXCEPT !.val = neg(@)]
  ELSE IF expr.kind = "series"
    THEN [kind |-> "series",
          items |-> [i \in 1..Len(expr.items) |-> reverseExpr(Reverse(expr.items)[i])]]
  ELSE [kind |-> "parallel",
        branches |-> [i \in 1..Len(expr.branches) |-> reverseExpr(expr.branches[i])]]

flattenSeries(items) ==
  SeqConcat([i \in 1..Len(items) |->
               IF items[i].kind = "series" THEN items[i].items ELSE <<items[i]>>])

makeSeries(items) ==
  LET flat == flattenSeries(items)
  IN IF Len(flat) = 1 THEN flat[1] ELSE [kind |-> "series", items |-> flat]

makeParallel(branches) ==
  IF Len(branches) = 1 THEN branches[1] ELSE [kind |-> "parallel", branches |-> branches]

(* line 61: the items of a branch; line 226: the items of the root *)
(* a branch that keeps a series expression as one item *)
branchItemsWhole(node) == <<node>>
branchItems(node) == IF node.kind = "series" THEN node.items ELSE <<node>>
rootItems(node) == IF node.kind = "series" THEN node.items ELSE <<node>>

(* exprToTreeNode threads the identifier counter: it returns [node, ctr]. *)
RECURSIVE exprToTreeNode(_, _)
RECURSIVE exprsToTreeNodes(_, _)
RECURSIVE exprsToBranches(_, _)
exprsToTreeNodes(exprs, ctr) ==
  IF exprs = <<>> THEN [nodes |-> <<>>, ctr |-> ctr]
  ELSE LET h == exprToTreeNode(Head(exprs), ctr)
           t == exprsToTreeNodes(Tail(exprs), h.ctr)
       IN [nodes |-> <<h.node>> \o t.nodes, ctr |-> t.ctr]
exprsToBranches(exprs, ctr) ==
  IF exprs = <<>> THEN [branches |-> <<>>, ctr |-> ctr]
  ELSE LET h == exprToTreeNode(Head(exprs), ctr)
           br == [id |-> newId("b", h.ctr), items |-> branchItems(h.node)]
           t == exprsToBranches(Tail(exprs), h.ctr + 1)
       IN [branches |-> <<br>> \o t.branches, ctr |-> t.ctr]
exprToTreeNode(expr, ctr) ==
  IF expr.kind \in AtomKinds
    THEN [node |-> [kind |-> expr.kind, id |-> expr.id, val |-> expr.val], ctr |-> ctr]
  ELSE IF expr.kind = "series"
    THEN LET r == exprsToTreeNodes(expr.items, ctr)
             items == SeqConcat([i \in 1..Len(r.nodes) |->
                         IF r.nodes[i].kind = "series" THEN r.nodes[i].items ELSE <<r.nodes[i]>>])
         IN IF Len(items) = 1 THEN [node |-> items[1], ctr |-> r.ctr]
            ELSE [node |-> [kind |-> "series", id |-> newId("s", r.ctr), items |-> items],
                  ctr |-> r.ctr + 1]
  ELSE LET r == exprsToBranches(expr.branches, ctr)
       IN [node |-> [kind |-> "parallel", id |-> newId("p", r.ctr), branches |-> r.branches],
           ctr |-> r.ctr + 1]

----------------------------------------------------------------------------
(* Graph helpers of the reducer *)

(* buildIndexMap: vertex id -> 0-based position; -1 stands for undefined.
   A later vertex with the same id overwrites an earlier one. *)
buildIndexMap(nodes, id) ==
  LET hits == {i \in 1..Len(nodes) : nodes[i] = id}
  IN IF hits = {} THEN -1 ELSE (CHOOSE i \in hits : \A j \in hits : j <= i) - 1

orderPair(u, v) == IF u < v THEN <<u, v>> ELSE <<v, u>>

canonicalOrientKeepExpr(edge, u, v) ==
  IF edge.from = u /\ edge.to = v THEN edge
  ELSE [edge EXCEPT !.from = u, !.to = v]

canonicalOrient(edge, u, v) ==
  IF edge.from = u /\ edge.to = v THEN edge
  ELSE [edge EXCEPT !.from = u, !.to = v, !.expr = reverseExpr(edge.expr)]

(* parallelGroups: the groups of >= 2 edge positions sharing an unordered endpoint
   pair, as a sequence in Map insertion order (order of each key's first edge). *)
parallelGroups(es) ==
  LET key(i) == orderPair(es[i].from, es[i].to)
      firsts == SelectIdx(es, LAMBDA i : \A j \in 1..(i - 1) : key(j) # key(i))
      grp(i) == SelectIdx(es, LAMBDA j : key(j) = key(i))
      all == [k \in 1..Len(firsts) |-> [key |-> key(firsts[k]), idxs |-> grp(firsts[k])]]
  IN SelectSeq(all, LAMBDA g : Len(g.idxs) >= 2)

degree(es, node) == Cardinality({i \in 1..Len(es) : es[i].from = node \/ es[i].to = node})

incident(es, node) == SelectIdx(es, LAMBDA i : es[i].from = node \/ es[i].to = node)

(* removeEdgesLeavingAll is a removal that takes no edge out *)
removeEdgesLeavingAll(es, indices) == es
removeEdgesByIndex(es, indices) ==
  LET set == {indices[k] : k \in 1..Len(indices)}
      keep == SelectIdx(es, LAMBDA i : i \notin set)
  IN [k \in 1..Len(keep) |-> es[keep[k]]]

edgeToExpr(edge) ==
  IF edge.kind = "wire" THEN [kind |-> "resistor", id |-> edge.id, val |-> Num(0)]
  ELSE [kind |-> edge.kind, id |-> edge.id, val |-> edge.val]

----------------------------------------------------------------------------
(* Terminal resolution, nodeCircuitToSeriesParallelCircuit lines 129-151.
   Indices are 0-based; -1 stands for undefined. *)
hasNode(nc, id) == id # Null /\ buildIndexMap(nc.nodes, id) # -1

(* the last vsource edge instead of the first *)
lastVsource(nc) ==
  LET vs == SelectIdx(nc.edges, LAMBDA i : nc.edges[i].kind = "vsource")
  IN IF vs = <<>> THEN 0 ELSE vs[Len(vs)]

firstVsource(nc) ==
  LET vs == SelectIdx(nc.edges, LAMBDA i : nc.edges[i].kind = "vsource")
  IN IF vs = <<>> THEN 0 ELSE vs[1]

ErrMissingNode == "Invalid circuit: an edge references a missing node."
ErrNeedNodes == "Invalid circuit: add nodes/components (need at least 2 nodes)."
ErrSameTerminal == "Invalid circuit: terminals cannot be the same node."
ErrTerminalsShorted == "Invalid circuit: reference terminals are shorted by wire."
ErrVsourceShorted == "Invalid circuit: a voltage source is shorted by wire."
ErrNoComponents == "Invalid circuit: no components."
ErrNotConnected == "Circuit does not connect + and - terminals."
ErrNotReducible == "Circuit is not reducible by series/parallel reductions."
ErrLimit == "Reduction limit reached."

Fail(msg) == [ok |-> FALSE, error |-> msg]

resolveTerminals(nc) ==
  LET explicitPlus == IF hasNode(nc, nc.plusNodeId) THEN buildIndexMap(nc.nodes, nc.plusNodeId) ELSE -1
      explicitMinus == IF hasNode(nc, nc.minusNodeId) THEN buildIndexMap(nc.nodes, nc.minusNodeId) ELSE -1
      fv == firstVsource(nc)
      cand ==
        IF explicitPlus = -1 \/ explicitMinus = -1
          THEN IF fv # 0
                 THEN LET a == buildIndexMap(nc.nodes, nc.edges[fv].a)
                          b == buildIndexMap(nc.nodes, nc.edges[fv].b)
                      IN IF a = -1 \/ b = -1 THEN Fail(ErrMissingNode)
                         ELSE [ok |-> TRUE, plus |-> a, minus |-> b]
               ELSE IF Len(nc.nodes) >= 2 THEN [ok |-> TRUE, plus |-> 0, minus |-> 1]
               ELSE Fail(ErrNeedNodes)
        ELSE [ok |-> TRUE, plus |-> explicitPlus, minus |-> explicitMinus]
  IN IF ~cand.ok THEN cand
     ELSE IF cand.plus = cand.minus THEN Fail(ErrSameTerminal)
     ELSE cand

----------------------------------------------------------------------------
(* Union-find with path compression, lines 154-171. parent is a function on
   0..n-1. find returns the representative and the compressed parent array. *)
RECURSIVE findRoot(_, _)
findRoot(parent, x) == IF parent[x] = x THEN x ELSE findRoot(parent, parent[x])

RECURSIVE compress(_, _, _)
compress(parent, cur, r) ==
  IF parent[cur] = cur THEN parent
  ELSE compress([parent EXCEPT ![cur] = r], parent[cur], r)

find(parent, x) ==
  LET r == findRoot(parent, x)
  IN [rep |-> r, parent |-> compress(parent, x, r)]

(* union that hangs b itself, not its representative, under a *)
unionDirect(parent, a, b) ==
  LET fa == find(parent, a)
  IN [fa.parent EXCEPT ![b] = fa.rep]

union(parent, a, b) ==
  LET fa == find(parent, a)
      fb == find(fa.parent, b)
  IN IF fa.rep = fb.rep THEN fb.parent
     ELSE [fb.parent EXCEPT ![fb.rep] = fa.rep]

(* The wire loop, lines 173-180: [ok, parent] or a failure. *)
RECURSIVE unionWires(_, _, _, _)
unionWires(nc, parent, i, missing) ==
  IF i > Len(nc.edges) THEN [ok |-> TRUE, parent |-> parent]
  ELSE LET e == nc.edges[i]
           a == buildIndexMap(nc.nodes, e.a)
           b == buildIndexMap(nc.nodes, e.b)
       IN IF e.kind # "wire" THEN unionWires(nc, parent, i + 1, missing)
          ELSE IF a = -1 \/ b = -1 THEN Fail(missing)
          ELSE IF a = b THEN unionWires(nc, parent, i + 1, missing)
          ELSE unionWires(nc, union(parent, a, b), i + 1, missing)

(* Super-node numbering, lines 182-194: representatives in first-seen order. *)
RECURSIVE assignIndices(_, _, _, _, _)
assignIndices(parent, n, i, repToNew, acc) ==
  IF i >= n THEN [oldToNew |-> acc, nodeCount |-> Len(repToNew)]
  ELSE LET f == find(parent, i)
           known == {k \in 1..Len(repToNew) : repToNew[k] = f.rep}
       IN IF known = {}
            THEN assignIndices(f.parent, n, i + 1, Append(repToNew, f.rep), Append(acc, Len(repToNew)))
          ELSE assignIndices(f.parent, n, i + 1, repToNew, Append(acc, (CHOOSE k \in known : TRUE) - 1))

contractWiresReducer(nc) ==
  LET n == Len(nc.nodes)
      u == unionWires(nc, [i \in 0..(n - 1) |-> i], 1, ErrMissingNode)
  IN IF ~u.ok THEN u
     ELSE LET r == assignIndices(u.parent, n, 0, <<>>, <<>>)
          IN [ok |-> TRUE, oldToNew |-> r.oldToNew, nodeCount |-> r.nodeCount]

(* The edge loop, lines 200-215: the surviving EdgeRecords, or a failure. *)
RECURSIVE buildEdges(_, _, _, _)
buildEdges(nc, o2n, i, acc) ==
  IF i > Len(nc.edges)
    THEN IF Len(acc) = 0 THEN Fail(ErrNoComponents) ELSE [ok |-> TRUE, edges |-> acc]
  ELSE LET e == nc.edges[i]
           a == buildIndexMap(nc.nodes, e.a)
           b == buildIndexMap(nc.nodes, e.b)
       IN IF e.kind = "wire" THEN buildEdges(nc, o2n, i + 1, acc)
          ELSE IF a = -1 \/ b = -1 THEN Fail(ErrMissingNode)
          ELSE LET u == o2n[a + 1]
                   v == o2n[b + 1]
               IN IF u = v
                    THEN IF e.kind = "vsource" /\ ~isZero(e.val) THEN Fail(ErrVsourceShorted)
                         ELSE buildEdges(nc, o2n, i + 1, acc)
                  ELSE buildEdges(nc, o2n, i + 1,
                                  Append(acc, [id |-> e.id, from |-> u, to |-> v, expr |-> edgeToExpr(e)]))

(* Lines 129-215 as a whole: what the call holds when it enters the loop, or
   the failure it returns before. stage tells how far the call came. *)
canonicalize(nc) ==
  Bind(resolveTerminals(nc), LAMBDA t :
    IF ~t.ok THEN [ok |-> FALSE, error |-> t.error, stage |-> "terminals"]
    ELSE Bind(contractWiresReducer(nc), LAMBDA c :
      IF ~c.ok THEN [ok |-> FALSE, error |-> c.error, stage |-> "wires", plus |-> t.plus, minus |-> t.minus]
      ELSE Bind([plus |-> t.plus, minus |-> t.minus,
                 plusN |-> c.oldToNew[t.plus + 1], minusN |-> c.oldToNew[t.minus + 1],
                 oldToNew |-> c.oldToNew, nodeCount |-> c.nodeCount], LAMBDA base :
        IF base.plusN = base.minusN
          THEN [ok |-> FALSE, error |-> ErrTerminalsShorted, stage |-> "shorted"] @@ base
        ELSE Bind(buildEdges(nc, c.oldToNew, 1, <<>>), LAMBDA b :
          IF ~b.ok THEN [ok |-> FALSE, error |-> b.error, stage |-> "edges"] @@ base
          ELSE [ok |-> TRUE, stage |-> "loop", edges |-> b.edges] @@ base))))

----------------------------------------------------------------------------
(* solveNodeCircuitBySuperposition up to its per-source solves,
   src/circuit/nodeCircuitFromCircuit.ts lines 203-260. *)

ErrAddNodes == "Add at least 2 nodes."
ErrWireMissingNode == "Invalid circuit: a wire references a missing node."
ErrTooFewNodes == "Invalid circuit: too few distinct nodes."
ErrInvalidOhms == "Invalid resistance value."
ErrInvalidVolts == "Invalid voltage source value."
ErrInvalidAmps == "Invalid current source value."
ErrNoElements == "No components."
ErrNoSources == "No independent sources found (add a source or provide external supply voltage)."

(* contractWires: its find and union are the reducer's, line for line *)
contractWires(nc) ==
  LET n == Len(nc.nodes)
      u == unionWires(nc, [i \in 0..(n - 1) |-> i], 1, ErrWireMissingNode)
  IN IF ~u.ok THEN u
     ELSE LET r == assignIndices(u.parent, n, 0, <<>>, <<>>)
          IN [ok |-> TRUE, oldToNew |-> r.oldToNew, nodeCount |-> r.nodeCount]

(* name: e.name, a field that is there when e has a name *)
nameOf(e) == IF "name" \in DOMAIN e THEN [name |-> e.name] ELSE [x \in {} |-> ""]

listIndependentSources(elements) ==
  SeqConcat([i \in 1..Len(elements) |->
     LET e == elements[i]
     IN IF e.kind = "vsource" /\ e.independent
          THEN <<[id |-> e.id, kind |-> "vsource", value |-> e.volts, unit |-> "V"] @@ nameOf(e)>>
        ELSE IF e.kind = "isource"
          THEN <<[id |-> e.id, kind |-> "isource", value |-> e.amps, unit |-> "A"] @@ nameOf(e)>>
        ELSE <<>>])

ensureFinitePositiveOhms(edge) ==
  IF ~isFinite(edge.val) \/ edge.val.v <= 0 THEN Fail(ErrInvalidOhms) ELSE [ok |-> TRUE]

ammeterId(id) == Id("ammeter:" \o id.pfx, id.n)

(* The element loop, lines 222-255: the GraphElements, or a failure. *)
RECURSIVE buildElements(_, _, _, _)
buildElements(nc, o2n, i, acc) ==
  IF i > Len(nc.edges) THEN [ok |-> TRUE, elements |-> acc]
  ELSE LET e == nc.edges[i]
           aOld == buildIndexMap(nc.nodes, e.a)
           bOld == buildIndexMap(nc.nodes, e.b)
       IN IF aOld = -1 \/ bOld = -1 THEN Fail(ErrMissingNode)
          ELSE LET a == o2n[aOld + 1]
                   b == o2n[bOld + 1]
                   skip == buildElements(nc, o2n, i + 1, acc)
               IN IF e.kind = "wire" THEN skip
                  ELSE IF e.kind = "resistor"
                    THEN IF ~ensureFinitePositiveOhms(e).ok THEN ensureFinitePositiveOhms(e)
                         ELSE IF a = b THEN skip
                         ELSE buildElements(nc, o2n, i + 1,
                                Append(acc, [kind |-> "resistor", id |-> e.id, ohms |-> e.val,
                                             n1 |-> a, n2 |-> b, generated |-> FALSE] @@ nameOf(e)))
                  ELSE IF e.kind = "ammeter"
                    THEN IF a = b THEN skip
                         ELSE buildElements(nc, o2n, i + 1,
                                Append(acc, [kind |-> "vsource", id |-> ammeterId(e.id), volts |-> Num(0),
                                             nPlus |-> a, nMinus |-> b, independent |-> FALSE] @@ nameOf(e)))
                  ELSE IF e.kind = "vsource"
                    THEN IF ~isFinite(e.val) THEN Fail(ErrInvalidVolts)
                         ELSE IF a = b /\ ~isZero(e.val) THEN Fail(ErrVsourceShorted)
                         ELSE IF a = b THEN skip
                         ELSE buildElements(nc, o2n, i + 1,
                                Append(acc, [kind |-> "vsource", id |-> e.id, volts |-> e.val,
                                             nPlus |-> a, nMinus |-> b, independent |-> TRUE] @@ nameOf(e)))
                  ELSE IF ~isFinite(e.val) THEN Fail(ErrInvalidAmps)
                  ELSE IF a = b THEN skip
                  ELSE buildElements(nc, o2n, i + 1,
                         Append(acc, [kind |-> "isource", id |-> e.id, amps |-> e.val,
                                      nFrom |-> a, nTo |-> b, independent |-> TRUE] @@ nameOf(e)))

(* Lines 203-260 as a whole. stage tells how far the call came: "nodes",
   "wires", "count", "elements", "empty" and "sources" are its failures in
   order, "solve" is the entry of the per-source solves. *)
solveCanon(nc) ==
  IF Len(nc.nodes) < 2 THEN [ok |-> FALSE, error |-> ErrAddNodes, stage |-> "nodes"]
  ELSE
    LET fv == firstVsource(nc)
        fb == IF fv = 0 THEN -1 ELSE buildIndexMap(nc.nodes, nc.edges[fv].b)
        groundOld == IF fb = -1 THEN 0 ELSE fb
    IN Bind(contractWires(nc), LAMBDA c :
         IF ~c.ok THEN [ok |-> FALSE, error |-> c.error, stage |-> "wires"]
         ELSE Bind([oldToNew |-> c.oldToNew, nodeCount |-> c.nodeCount], LAMBDA base :
           IF c.nodeCount < 2 THEN [ok |-> FALSE, error |-> ErrTooFewNodes, stage |-> "count"] @@ base
           ELSE Bind(buildElements(nc, c.oldToNew, 1, <<>>), LAMBDA b :
             IF ~b.ok THEN [ok |-> FALSE, error |-> b.error, stage |-> "elements"] @@ base
             ELSE IF Len(b.elements) = 0
               THEN [ok |-> FALSE, error |-> ErrNoElements, stage |-> "empty"] @@ base
             ELSE Bind([elements |-> b.elements, ground |-> c.oldToNew[groundOld + 1],
                        sources |-> listIndependentSources(b.elements)] @@ base, LAMBDA found :
               IF Len(found.sources) = 0
                 THEN [ok |-> FALSE, error |-> ErrNoSources, stage |-> "sources"] @@ found
               ELSE [ok |-> TRUE, stage |-> "solve"] @@ found))))

----------------------------------------------------------------------------
(* The MNA solver (mna.ts): solveLinearSystem and solveMna. A matrix is a
   sequence of rows, a vector a sequence; row r and column c of the code are
   positions r + 1 and c + 1. null is NoSolution. *)

NoSolution == [ok |-> FALSE]
ErrNodeCount == "Internal error: invalid node count."
ErrGroundNode == "Internal error: invalid ground node."
ErrEmptySystem == "Internal error: empty system."
ErrSingular == "Circuit equations are singular or inconsistent (no unique solution)."

(* lines 23-31: the row of the greatest |M[r][col]|, the first of them *)
RECURSIVE findPivot(_, _, _, _, _)
findPivot(M, col, r, pivot, pivotAbs) ==
  IF r > Len(M) THEN [pivot |-> pivot, pivotAbs |-> pivotAbs]
  ELSE IF greaterNum(absNum(M[r][col]), pivotAbs)
    THEN findPivot(M, col, r + 1, r, absNum(M[r][col]))
  ELSE findPivot(M, col, r + 1, pivot, pivotAbs)

swapRows(rows, i, j) ==
  [r \in 1..Len(rows) |-> IF r = i THEN rows[j] ELSE IF r = j THEN rows[i] ELSE rows[r]]

(* lines 43-50: the rows below col, M and rhs having the pivot row at col *)
eliminate(M, rhs, col) ==
  LET n == Len(M)
      factor(r) == divNum(M[r][col], M[col][col])
  IN [M |-> [r \in 1..n |->
               IF r <= col \/ isZero(factor(r)) THEN M[r]
               ELSE [c \in 1..n |->
                       IF c < col THEN M[r][c]
                       ELSE IF c = col THEN Num(0)
                       ELSE minusNum(M[r][c], timesNum(factor(r), M[col][c]))]],
      rhs |-> [r \in 1..n |->
                 IF r <= col \/ isZero(factor(r)) THEN rhs[r]
                 ELSE minusNum(rhs[r], timesNum(factor(r), rhs[col]))]]

(* lines 22-51, from column col *)
RECURSIVE forward(_, _, _)
forward(M, rhs, col) ==
  IF col > Len(M) THEN [ok |-> TRUE, M |-> M, rhs |-> rhs]
  ELSE Bind(findPivot(M, col, col + 1, col, absNum(M[col][col])), LAMBDA p :
         IF isZero(p.pivotAbs) \/ ~isFinite(p.pivotAbs) THEN NoSolution
         ELSE Bind(eliminate(swapRows(M, col, p.pivot), swapRows(rhs, col, p.pivot), col), LAMBDA e :
                forward(e.M, e.rhs, col + 1)))

(* line 56: sum -= M[r][c] * x[c] for c from r + 1 *)
RECURSIVE rowSum(_, _, _, _)
rowSum(row, x, c, sum) ==
  IF c > Len(row) THEN sum ELSE rowSum(row, x, c + 1, minusNum(sum, timesNum(row[c], x[c])))

(* lines 53-61, from row r down *)
RECURSIVE backward(_, _, _, _)
backward(M, rhs, r, x) ==
  IF r < 1 THEN [ok |-> TRUE, x |-> x]
  ELSE IF isZero(M[r][r]) \/ ~isFinite(M[r][r]) THEN NoSolution
  ELSE backward(M, rhs, r - 1, [x EXCEPT ![r] = divNum(rowSum(M[r], x, r + 1, rhs[r]), M[r][r])])

solveLinearSystem(A, b) ==
  Bind(forward(A, b, 1), LAMBDA f :
    IF ~f.ok THEN NoSolution
    ELSE backward(f.M, f.rhs, Len(b), [i \in 1..Len(b) |-> Num(0)]))

(* nodeVar: the position of a node among the unknowns, -1 for null *)
nodeVarUnshifted(node, groundNode) == IF node = groundNode THEN -1 ELSE node
nodeVar(node, groundNode) ==
  IF node = groundNode THEN -1
  ELSE IF groundNode = 0 THEN node - 1
  ELSE IF node < groundNode THEN node ELSE node - 1

(* addTo and the stamps: sys is [A, b], positions of the code *)
addTo(sys, r, c, value) ==
  IF r = -1 \/ c = -1 THEN sys ELSE [sys EXCEPT !.A[r + 1][c + 1] = plusNum(@, value)]
addB(sys, r, value) ==
  IF r = -1 THEN sys ELSE [sys EXCEPT !.b[r + 1] = plusNum(@, value)]

stampResistor(sys, e, groundNode) ==
  LET g == invNum(e.ohms)
      a == nodeVar(e.n1, groundNode)
      bnode == nodeVar(e.n2, groundNode)
  IN addTo(addTo(addTo(addTo(sys, a, a, g), bnode, bnode, g), a, bnode, neg(g)), bnode, a, neg(g))

stampCurrent(sys, e, groundNode) ==
  addB(addB(sys, nodeVar(e.nFrom, groundNode), neg(e.amps)), nodeVar(e.nTo, groundNode), e.amps)

stampVoltage(sys, vs, k, nUnknownVoltages, groundNode) ==
  LET row == nUnknownVoltages + k
      a == nodeVar(vs.nPlus, groundNode)
      bnode == nodeVar(vs.nMinus, groundNode)
      s1 == [sys EXCEPT !.b[row + 1] = vs.volts]
      s2 == IF a = -1 THEN s1 ELSE addTo(addTo(s1, a, row, Num(1)), row, a, Num(1))
  IN IF bnode = -1 THEN s2 ELSE addTo(addTo(s2, bnode, row, Num(-1)), row, bnode, Num(-1))

(* the three loops of lines 94-138 over the elements, or the first failure *)
RECURSIVE stampResistors(_, _, _, _)
stampResistors(sys, elements, i, groundNode) ==
  IF i > Len(elements) THEN [ok |-> TRUE, sys |-> sys]
  ELSE IF elements[i].kind # "resistor" THEN stampResistors(sys, elements, i + 1, groundNode)
  ELSE IF ~isFinite(elements[i].ohms) \/ ~greaterNum(elements[i].ohms, Num(0)) THEN Fail(ErrInvalidOhms)
  ELSE stampResistors(stampResistor(sys, elements[i], groundNode), elements, i + 1, groundNode)

RECURSIVE stampCurrents(_, _, _, _)
stampCurrents(sys, elements, i, groundNode) ==
  IF i > Len(elements) THEN [ok |-> TRUE, sys |-> sys]
  ELSE IF elements[i].kind # "isource" THEN stampCurrents(sys, elements, i + 1, groundNode)
  ELSE IF ~isFinite(elements[i].amps) THEN Fail(ErrInvalidAmps)
  ELSE stampCurrents(stampCurrent(sys, elements[i], groundNode), elements, i + 1, groundNode)

RECURSIVE stampVoltages(_, _, _, _, _)
stampVoltages(sys, voltageSources, k, nUnknownVoltages, groundNode) ==
  IF k >= Len(voltageSources) THEN [ok |-> TRUE, sys |-> sys]
  ELSE IF ~isFinite(voltageSources[k + 1].volts) THEN Fail(ErrInvalidVolts)
  ELSE stampVoltages(stampVoltage(sys, voltageSources[k + 1], k, nUnknownVoltages, groundNode),
                     voltageSources, k + 1, nUnknownVoltages, groundNode)

isVsource(e) == e.kind = "vsource"

(* lines 143-158: nodeVoltages, and voltageSourceCurrentsById as [id, value]
   in the order of the voltage sources, a later entry of an id hiding an
   earlier one *)
mnaOk(x, voltageSources, nNodes, groundNode) ==
  [ok |-> TRUE,
   nodeVoltages |-> [node \in 1..nNodes |->
                       IF nodeVar(node - 1, groundNode) = -1 THEN Num(0)
                       ELSE x[nodeVar(node - 1, groundNode) + 1]],
   voltageSourceCurrentsById |->
     [k \in 1..Len(voltageSources) |->
        [id |-> voltageSources[k].id,
         value |-> x[nNodes - 1 + CHOOSE j \in 1..Len(voltageSources) :
                                       /\ voltageSources[j].id = voltageSources[k].id
                                       /\ \A i \in 1..Len(voltageSources) :
                                            voltageSources[i].id = voltageSources[k].id => i <= j]]]]

solveMna(elements, nNodes, groundNode) ==
  IF nNodes < 2 THEN Fail(ErrNodeCount)
  ELSE IF groundNode < 0 \/ groundNode >= nNodes THEN Fail(ErrGroundNode)
  ELSE
    LET voltageSources == SelectSeq(elements, isVsource)
        nUnknownVoltages == nNodes - 1
        dim == nUnknownVoltages + Len(voltageSources)
        zero == [A |-> [r \in 1..dim |-> [c \in 1..dim |-> Num(0)]], b |-> [r \in 1..dim |-> Num(0)]]
    IN IF dim = 0 THEN Fail(ErrEmptySystem) ELSE
       Bind(stampResistors(zero, elements, 1, groundNode), LAMBDA s1 :
         IF ~s1.ok THEN s1
         ELSE Bind(stampCurrents(s1.sys, elements, 1, groundNode), LAMBDA s2 :
           IF ~s2.ok THEN s2
           ELSE Bind(stampVoltages(s2.sys, voltageSources, 0, nUnknownVoltages, groundNode), LAMBDA s3 :
             IF ~s3.ok THEN s3
             ELSE Bind(solveLinearSystem(s3.sys.A, s3.sys.b), LAMBDA x :
               IF ~x.ok THEN Fail(ErrSingular)
               ELSE mnaOk(x.x, voltageSources, nNodes, groundNode)))))

----------------------------------------------------------------------------
(* The superposition drivers: solveNodeCircuitBySuperposition from its loop
   on (nodeCircuitFromCircuit.ts lines 262-319) and solveCircuitBySuperposition
   (superposition.ts) with buildCircuitGraph (graph.ts). A Record<string, number> is a
   sequence of [id, value] in the order of insertion. *)

(* a clone that silences the active source too *)
cloneElementsSilent(elements, active) ==
  [i \in 1..Len(elements) |->
     LET e == elements[i]
     IN IF e.kind = "vsource" THEN (IF ~e.independent THEN e ELSE [e EXCEPT !.volts = Num(0)])
        ELSE IF e.kind = "isource" THEN [e EXCEPT !.amps = Num(0)]
        ELSE e]
cloneElementsForActiveSource(elements, active) ==
  [i \in 1..Len(elements) |->
     LET e == elements[i]
     IN IF e.kind = "vsource"
          THEN IF ~e.independent THEN e
               ELSE IF e.id = active.id THEN e ELSE [e EXCEPT !.volts = Num(0)]
        ELSE IF e.kind = "isource"
          THEN IF e.id = active.id THEN e ELSE [e EXCEPT !.amps = Num(0)]
        ELSE e]

(* `While solving with only source ${s.name ?? s.id} active: ${solved.error}` *)
idText(id) == id.pfx \o ToString(id.n)
nameOrIdOnly(s) == idText(s.id)
nameOrId(s) == IF "name" \in DOMAIN s THEN s.name ELSE idText(s.id)
whileSolving(s, error) == "While solving with only source " \o nameOrId(s) \o " active: " \o error

(* lines 286-295: the by-id records of one case *)
resistorVoltage(e, nodeVoltages) == minusNum(nodeVoltages[e.n1 + 1], nodeVoltages[e.n2 + 1])
isResistor(e) == e.kind = "resistor"
isIsource(e) == e.kind = "isource"
(* record[id] = value *)
setById(record, id, value) ==
  IF \E k \in 1..Len(record) : record[k].id = id
    THEN [k \in 1..Len(record) |-> IF record[k].id = id THEN [id |-> id, value |-> value] ELSE record[k]]
  ELSE Append(record, [id |-> id, value |-> value])
getById(record, id) ==
  IF \E k \in 1..Len(record) : record[k].id = id
    THEN record[CHOOSE k \in 1..Len(record) : record[k].id = id].value
  ELSE Num(0)

RECURSIVE resistorRecords(_, _, _, _)
resistorRecords(elementsCase, nodeVoltages, i, acc) ==
  IF i > Len(elementsCase) THEN acc
  ELSE LET e == elementsCase[i]
       IN IF e.kind = "resistor"
            THEN LET v == resistorVoltage(e, nodeVoltages)
                 IN resistorRecords(elementsCase, nodeVoltages, i + 1,
                      [acc EXCEPT !.resistorCurrentsById = setById(@, e.id, divNum(v, e.ohms)),
                                  !.resistorVoltagesById = setById(@, e.id, v)])
          ELSE IF e.kind = "isource"
            THEN resistorRecords(elementsCase, nodeVoltages, i + 1,
                   [acc EXCEPT !.currentSourceVoltagesById =
                      setById(@, e.id, minusNum(nodeVoltages[e.nFrom + 1], nodeVoltages[e.nTo + 1]))])
          ELSE resistorRecords(elementsCase, nodeVoltages, i + 1, acc)

(* total[id] = (total[id] ?? 0) + value, for every entry *)
RECURSIVE addEntries(_, _, _)
addEntries(total, entries, i) ==
  IF i > Len(entries) THEN total
  ELSE addEntries(setById(total, entries[i].id, plusNum(getById(total, entries[i].id), entries[i].value)),
                  entries, i + 1)

(* the initial totals: 0 for each id of the set, in the order of insertion *)
RECURSIVE zeroById(_, _, _, _)
zeroById(elements, Test(_), i, acc) ==
  IF i > Len(elements) THEN acc
  ELSE zeroById(elements, Test, i + 1,
                IF Test(elements[i]) THEN setById(acc, elements[i].id, Num(0)) ELSE acc)

(* the loop over the sources, from source i. st holds the locals cases and
   total...; calls lists the calls of solveMna made so far. nodePath tells
   the driver: the node path keeps currentSourceVoltagesById, the tree path
   does not. *)
RECURSIVE sourceLoop(_, _, _, _, _, _, _, _)
sourceLoop(elements, sources, nNodes, ground, nodePath, i, st, calls) ==
  IF i > Len(sources) THEN [done |-> TRUE, st |-> st, calls |-> calls]
  ELSE
    Bind(cloneElementsForActiveSource(elements, sources[i]), LAMBDA elementsCase :
      Bind(solveMna(elementsCase, nNodes, ground), LAMBDA sol :
        Bind(Append(calls, [source |-> sources[i], elements |-> elementsCase,
                            nodeCount |-> nNodes, groundNode |-> ground, ok |-> sol.ok]), LAMBDA calls1 :
          IF ~sol.ok
            THEN [done |-> FALSE, error |-> whileSolving(sources[i], sol.error), calls |-> calls1]
          ELSE
            Bind(resistorRecords(elementsCase, sol.nodeVoltages, 1,
                   [resistorCurrentsById |-> <<>>, resistorVoltagesById |-> <<>>,
                    currentSourceVoltagesById |-> <<>>]), LAMBDA rec :
              sourceLoop(elements, sources, nNodes, ground, nodePath, i + 1,
                [cases |-> Append(st.cases,
                    [source |-> sources[i], nodeVoltages |-> sol.nodeVoltages,
                     voltageSourceCurrentsById |-> sol.voltageSourceCurrentsById,
                     resistorCurrentsById |-> rec.resistorCurrentsById,
                     resistorVoltagesById |-> rec.resistorVoltagesById]
                    @@ (IF nodePath THEN [currentSourceVoltagesById |-> rec.currentSourceVoltagesById]
                        ELSE [x \in {} |-> <<>>])),
                 totalNodeVoltages |->
                   [n \in 1..nNodes |-> plusNum(st.totalNodeVoltages[n], sol.nodeVoltages[n])],
                 totalVoltageSourceCurrentsById |->
                   addEntries(st.totalVoltageSourceCurrentsById, sol.voltageSourceCurrentsById, 1),
                 totalResistorCurrentsById |->
                   addEntries(st.totalResistorCurrentsById, rec.resistorCurrentsById, 1),
                 totalResistorVoltagesById |->
                   addEntries(st.totalResistorVoltagesById, rec.resistorVoltagesById, 1),
                 totalCurrentSourceVoltagesById |->
                   addEntries(st.totalCurrentSourceVoltagesById, rec.currentSourceVoltagesById, 1)],
                calls1)))))

(* the locals before the loop *)
totalsAtStart(elements, nNodes) ==
  [cases |-> <<>>,
   totalNodeVoltages |-> [n \in 1..nNodes |-> Num(0)],
   totalVoltageSourceCurrentsById |-> <<>>,
   totalResistorCurrentsById |-> zeroById(elements, isResistor, 1, <<>>),
   totalResistorVoltagesById |-> zeroById(elements, isResistor, 1, <<>>),
   totalCurrentSourceVoltagesById |-> zeroById(elements, isIsource, 1, <<>>)]

(* solveNodeCircuitBySuperposition: res is the value returned, calls the calls
   of solveMna; the other fields are the locals of the call (those of
   solveCanon when it returned before its loop) *)
solveNodeCircuitBySuperposition(nc) ==
  Bind(solveCanon(nc), LAMBDA c :
    IF ~c.ok THEN [path |-> "node", res |-> Fail(c.error), calls |-> <<>>] @@ c
    ELSE Bind(sourceLoop(c.elements, c.sources, c.nodeCount, c.ground, TRUE, 1,
                         totalsAtStart(c.elements, c.nodeCount), <<>>), LAMBDA l :
      [path |-> "node", calls |-> l.calls, stage |-> c.stage, elements |-> c.elements,
       oldToNew |-> c.oldToNew, nodeCount |-> c.nodeCount, ground |-> c.ground,
       res |-> IF ~l.done THEN Fail(l.error)
               ELSE [ok |-> TRUE, sources |-> c.sources, cases |-> l.st.cases,
                     nodeVoltages |-> l.st.totalNodeVoltages,
                     nodeVoltageByNodeId |->
                       [k \in 1..Len(nc.nodes) |->
                          [id |-> nc.nodes[k],
                           value |-> l.st.totalNodeVoltages[c.oldToNew[buildIndexMap(nc.nodes, nc.nodes[k]) + 1] + 1]]],
                     voltageSourceCurrentsById |-> l.st.totalVoltageSourceCurrentsById,
                     resistorCurrentsById |-> l.st.totalResistorCurrentsById,
                     resistorVoltagesById |-> l.st.totalResistorVoltagesById,
                     currentSourceVoltagesById |-> l.st.totalCurrentSourceVoltagesById]]))

----------------------------------------------------------------------------
(* One iteration of the rewrite loop, lines 218-270. *)

GuardLimit == 10000

(* lines 218-228: a single edge is left *)
finish(es, pN, mN, ctr) ==
  LET only == es[1]
  IN IF orderPair(only.from, only.to) # orderPair(pN, mN) THEN [res |-> Fail(ErrNotConnected), ctr |-> ctr]
     ELSE LET oriented == canonicalOrient(only, pN, mN)
              root == exprToTreeNode(oriented.expr, ctr)
              items == rootItems(root.node)
          IN [res |-> [ok |-> TRUE,
                       circuit |-> [kind |-> "circuit", id |-> newId("circuit", root.ctr),
                                    route |-> "straight", items |-> items]],
              ctr |-> root.ctr + 1]

(* lines 231-243: merge the first parallel group *)
parallelStep(es, ctr) ==
  LET firstPar == parallelGroups(es)[1]
      u == firstPar.key[1]
      v == firstPar.key[2]
      idxs == firstPar.idxs
      group == [k \in 1..Len(idxs) |-> canonicalOrient(es[idxs[k]], u, v)]
      expr == makeParallel([k \in 1..Len(group) |-> group[k].expr])
  IN Append(removeEdgesByIndex(es, idxs), [id |-> newId("eP", ctr), from |-> u, to |-> v, expr |-> expr])

(* lines 247-256: the scan for a series node, from super-node n upwards;
   the first super-node that passes every test, or -1. seriesEligibleAnyDegree
   is a test that a node of three edges passes too. *)
seriesEligibleAnyDegree(es, pN, mN, n) ==
  /\ n # pN /\ n # mN
  /\ degree(es, n) >= 2
  /\ LET inc == incident(es, n)
     IN LET e1 == es[inc[1]]
            e2 == es[inc[2]]
            a == IF e1.from = n THEN e1.to ELSE e1.from
            b == IF e2.from = n THEN e2.to ELSE e2.from
        IN a # b
seriesEligible(es, pN, mN, n) ==
  /\ n # pN /\ n # mN
  /\ degree(es, n) = 2
  /\ LET inc == incident(es, n)
     IN /\ Len(inc) = 2
        /\ LET e1 == es[inc[1]]
               e2 == es[inc[2]]
               a == IF e1.from = n THEN e1.to ELSE e1.from
               b == IF e2.from = n THEN e2.to ELSE e2.from
           IN a # b

seriesScanDown(es, pN, mN, nCount, n) ==
  LET c == {m \in n..(nCount - 1) : seriesEligible(es, pN, mN, m)}
  IN IF c = {} THEN -1 ELSE CHOOSE m \in c : \A k \in c : k <= m

RECURSIVE seriesScan(_, _, _, _, _)
seriesScan(es, pN, mN, nCount, n) ==
  IF n >= nCount THEN -1
  ELSE IF seriesEligible(es, pN, mN, n) THEN n
  ELSE seriesScan(es, pN, mN, nCount, n + 1)

(* lines 250-266: merge the two edges at super-node n *)
seriesStep(es, n, ctr) ==
  LET inc == incident(es, n)
      e1 == es[inc[1]]
      e2 == es[inc[2]]
      a == IF e1.from = n THEN e1.to ELSE e1.from
      b == IF e2.from = n THEN e2.to ELSE e2.from
      c1 == IF e1.from = a THEN e1 ELSE [e1 EXCEPT !.from = a, !.to = n, !.expr = reverseExpr(e1.expr)]
      c2 == IF e2.from = n THEN e2 ELSE [e2 EXCEPT !.from = n, !.to = b, !.expr = reverseExpr(e2.expr)]
      expr == makeSeries(<<canonicalOrient(c1, a, n).expr, canonicalOrient(c2, n, b).expr>>)
  IN Append(removeEdgesByIndex(es, inc), [id |-> newId("eS", ctr), from |-> a, to |-> b, expr |-> expr])

(* The loop body: either the call returns (done) or the edge list is rewritten. *)
iterate(es, pN, mN, nCount, ctr) ==
  IF Len(es) = 1
    THEN LET f == finish(es, pN, mN, ctr) IN [done |-> TRUE, res |-> f.res, edges |-> es, ctr |-> f.ctr]
  ELSE IF parallelGroups(es) # <<>>
    THEN [done |-> FALSE, res |-> Null, edges |-> parallelStep(es, ctr), ctr |-> ctr + 1]
  ELSE LET n == seriesScan(es, pN, mN, nCount, 0)
       IN IF n # -1
            THEN [done |-> FALSE, res |-> Null, edges |-> seriesStep(es, n, ctr), ctr |-> ctr + 1]
          ELSE [done |-> TRUE, res |-> Fail(ErrNotReducible), edges |-> es, ctr |-> ctr]

----------------------------------------------------------------------------
(* seriesParallelCircuitToNodeCircuit, src/circuit/nodeCircuitFromCircuit.ts
   lines 5-85. The BuildState carries the identifier counter as ctr. *)

ErrHasSources == "Cannot convert a circuit with sources to a reducible node-based circuit."

seriesItemsForCircuit(c) ==
  IF c.route = "u" THEN c.top \o c.right \o c.bottom ELSE c.items

(* addNode: the new vertex is the last of state.nodes *)
addNode(state) == [state EXCEPT !.nodes = Append(@, newId("n", state.ctr)), !.ctr = @ + 1]
addEdge(state, edge) == [state EXCEPT !.edges = Append(@, edge)]

RECURSIVE buildSeries(_, _, _, _)
RECURSIVE buildItems(_, _, _, _, _)
RECURSIVE buildNode(_, _, _, _)
RECURSIVE buildBranches(_, _, _, _, _)

(* buildSeries without its first lines: an empty list adds nothing *)
buildSeriesNoFiller(state, items, from, to) == buildItems(state, items, 1, from, to)

buildSeries(state, items, from, to) ==
  IF Len(items) = 0
    THEN [ok |-> TRUE,
          state |-> addEdge([state EXCEPT !.ctr = @ + 1],
                            [kind |-> "ammeter", id |-> newId("eA", state.ctr), val |-> Num(0),
                             a |-> from, b |-> to])]
  ELSE buildItems(state, items, 1, from, to)

(* the for loop of buildSeries, from item i with the cursor given *)
buildItems(state, items, i, cursor, to) ==
  IF i > Len(items) THEN [ok |-> TRUE, state |-> state]
  ELSE LET last == i = Len(items)
           s1 == IF last THEN state ELSE addNode(state)
           next == IF last THEN to ELSE s1.nodes[Len(s1.nodes)]
           r == buildNode(s1, items[i], cursor, next)
       IN IF ~r.ok THEN r ELSE buildItems(r.state, items, i + 1, next, to)

buildNode(state, node, from, to) ==
  IF node.kind \in {"resistor", "ammeter"}
    THEN [ok |-> TRUE,
          state |-> addEdge(state, [kind |-> node.kind, id |-> node.id, val |-> node.val,
                                    a |-> from, b |-> to])]
  ELSE IF node.kind \in SourceKinds THEN [ok |-> FALSE, error |-> ErrHasSources, state |-> state]
  ELSE IF node.kind = "series" THEN buildSeries(state, node.items, from, to)
  ELSE buildBranches(state, node.branches, 1, from, to)

(* the loop over the branches of a parallel block *)
buildBranches(state, branches, i, from, to) ==
  IF i > Len(branches) THEN [ok |-> TRUE, state |-> state]
  ELSE LET r == buildSeries(state, branches[i].items, from, to)
       IN IF ~r.ok THEN r ELSE buildBranches(r.state, branches, i + 1, from, to)

(* [ok, nodeCircuit | error, ctr]; the id of the node circuit takes one identifier *)
seriesParallelCircuitToNodeCircuit(c, ctr) ==
  LET s1 == addNode([nodes |-> <<>>, edges |-> <<>>, ctr |-> ctr])
      s2 == addNode(s1)
      plusNodeId == s1.nodes[1]
      minusNodeId == s2.nodes[2]
      built == buildSeries(s2, seriesItemsForCircuit(c), plusNodeId, minusNodeId)
  IN IF ~built.ok THEN [ok |-> FALSE, error |-> built.error, ctr |-> built.state.ctr]
     ELSE [ok |-> TRUE,
           nodeCircuit |-> [nodes |-> built.state.nodes, edges |-> built.state.edges,
                            plusNodeId |-> plusNodeId, minusNodeId |-> minusNodeId],
           ctr |-> built.state.ctr + 1]

----------------------------------------------------------------------------
(* The reduction trace: scanCandidates, reduceOneLevel, computeReductionLevels
   (the reduction module printed in src/components/SeriesListEditor.tsx, lines
   239-578). A list key is a record [t, a, b]; an undefined error is "". The
   LaTeX strings of a level are computed from its reductions and are left out. *)

ErrEmptySeries == "Empty series group acts like a wire (0Ω) and would create a short."
ErrExpectedSeries == "Internal error: expected atomic/wire series items."
ErrShortSeries == "Short circuit detected (0Ω series path)."
ErrInvalidReduction == "Invalid resistance value during reduction."
ErrFewBranches == "Parallel block must have at least 2 branches."
ErrEmptyBranch == "Empty parallel branch acts like a wire (0Ω) and creates a short."
ErrExpectedBranches == "Internal error: expected atomic parallel branches."
ErrShortBranch == "Short circuit detected: a parallel branch has 0Ω."
ErrShortEquivalent == "Short circuit detected (0Ω equivalent)."
ErrScanEmptyBranch == "Short circuit detected: an empty parallel branch is a wire (0Ω)."
ErrScanShortBranch == "Short circuit detected: a parallel branch has 0Ω (ammeter-only path)."

listKeyRoot(segment) == [t |-> segment, a |-> Null, b |-> Null]
listKeyForSeriesBlock(seriesId) == [t |-> "series", a |-> seriesId, b |-> Null]
listKeyForBranch(parallelId, branchId) == [t |-> "branch", a |-> parallelId, b |-> branchId]

isAtomic(node) == node.kind = "resistor" \/ node.kind = "ammeter"
Every(items, Test(_)) == \A i \in 1..Len(items) : Test(items[i])

RECURSIVE isWireLike(_)
isWireLike(node) ==
  IF node.kind # "series" THEN FALSE
  ELSE IF Len(node.items) = 0 THEN TRUE
  ELSE \A i \in 1..Len(node.items) : isWireLike(node.items[i])

atomicOrWire(n) == isAtomic(n) \/ isWireLike(n)
atomicOhms(node) == IF node.kind = "ammeter" THEN Num(0) ELSE node.val

RECURSIVE sumFrom(_, _)
sumFrom(items, sum) ==
  IF items = <<>> THEN sum ELSE sumFrom(Tail(items), plusNum(sum, atomicOhms(Head(items))))
sumOhms(items) == sumFrom(items, Num(0))

seriesEquivalentOrError(items) ==
  IF Len(items) = 0 THEN Fail(ErrEmptySeries)
  ELSE IF ~Every(items, atomicOrWire) THEN Fail(ErrExpectedSeries)
  ELSE LET total == sumOhms(SelectSeq(items, isAtomic))
       IN IF isZero(total) THEN Fail(ErrShortSeries)
          ELSE IF isNegative(total) \/ ~isFinite(total) THEN Fail(ErrInvalidReduction)
          ELSE [ok |-> TRUE, ohms |-> total]

(* the loop over the branches, lines 308-315: branchOhms or the first failure *)
RECURSIVE branchOhmsFrom(_, _, _)
branchOhmsFrom(branches, i, acc) ==
  IF i > Len(branches) THEN [ok |-> TRUE, branchOhms |-> acc]
  ELSE LET items == branches[i].items
       IN IF Len(items) = 0 THEN Fail(ErrEmptyBranch)
          ELSE IF ~Every(items, isAtomic) THEN Fail(ErrExpectedBranches)
          ELSE IF isZero(sumOhms(items)) THEN Fail(ErrShortBranch)
          ELSE branchOhmsFrom(branches, i + 1, Append(acc, sumOhms(items)))

RECURSIVE sumInverses(_, _)
sumInverses(rs, acc) ==
  IF rs = <<>> THEN acc ELSE sumInverses(Tail(rs), plusNum(acc, invNum(Head(rs))))

parallelEquivalentOrError(node) ==
  IF Len(node.branches) < 2 THEN Fail(ErrFewBranches)
  ELSE LET b == branchOhmsFrom(node.branches, 1, <<>>)
       IN IF ~b.ok THEN b
          ELSE LET denom == sumInverses(b.branchOhms, Num(0))
                   eq == invNum(denom)
               IN IF isZero(eq) THEN Fail(ErrShortEquivalent)
                  ELSE IF isNegative(eq) \/ ~isFinite(eq) THEN Fail(ErrInvalidReduction)
                  ELSE [ok |-> TRUE, ohms |-> eq, branchOhms |-> b.branchOhms]

(* scanCandidates: st is [candidates, error], the two locals the closures share *)
push(st, candidate) == [st EXCEPT !.candidates = Append(@, candidate)]

RECURSIVE scanList(_, _, _, _)
RECURSIVE scanNode(_, _, _)
RECURSIVE scanNodes(_, _, _)
RECURSIVE scanBranchLists(_, _, _, _)
RECURSIVE checkBranches(_, _, _, _)

scanList(listKey, depth, items, st) ==
  IF Len(items) = 0 THEN st
  ELSE LET atoms == SelectSeq(items, isAtomic)
           cand == [type |-> "series_list", depth |-> depth, listKey |-> listKey, items |-> atoms]
           st1 == IF Len(items) >= 2 /\ Every(items, atomicOrWire)
                    THEN IF Len(atoms) >= 2 THEN push(st, cand)
                         ELSE IF Len(atoms) = 1 /\ (\E i \in 1..Len(items) : isWireLike(items[i]))
                           THEN push(st, cand)
                         ELSE st
                  ELSE st
       IN scanNodes(items, depth, st1)

(* for (const node of items) scanNode(node, depth) *)
scanNodes(items, depth, st) ==
  IF items = <<>> THEN st ELSE scanNodes(Tail(items), depth, scanNode(Head(items), depth, st))

scanNode(node, depth, st) ==
  IF st.error # "" THEN st
  ELSE IF node.kind = "series"
    THEN IF Len(node.items) = 0 THEN st
         ELSE scanList(listKeyForSeriesBlock(node.id), depth + 1, node.items,
                       IF Every(node.items, isAtomic)
                         THEN push(st, [type |-> "series_block", depth |-> depth, node |-> node])
                       ELSE st)
  ELSE IF node.kind = "parallel"
    THEN IF Len(node.branches) < 2 THEN st
         ELSE checkBranches(node, 1, depth, scanBranchLists(node, 1, depth, st))
  ELSE st

(* lines 346: the lists of the branches, from branch i *)
scanBranchLists(node, i, depth, st) ==
  IF i > Len(node.branches) THEN st
  ELSE scanBranchLists(node, i + 1, depth,
         scanList(listKeyForBranch(node.id, node.branches[i].id), depth + 1, node.branches[i].items, st))

(* lines 348-361: the test of the branches, from branch i, then the candidate *)
checkBranches(node, i, depth, st) ==
  IF i > Len(node.branches)
    THEN push(st, [type |-> "parallel_block", depth |-> depth, node |-> node])
  ELSE LET items == node.branches[i].items
       IN IF Len(items) = 0 THEN [st EXCEPT !.error = ErrScanEmptyBranch]
          ELSE IF ~Every(items, isAtomic) THEN st
          ELSE IF isZero(sumOhms(items)) THEN [st EXCEPT !.error = ErrScanShortBranch]
          ELSE checkBranches(node, i + 1, depth, st)

notWireLike(n) == ~isWireLike(n)

scanCandidates(c) ==
  LET st0 == [candidates |-> <<>>, error |-> ""]
  IN IF c.route = "u"
       THEN LET st3 == scanList(listKeyRoot("root:bottom"), 0, c.bottom,
                         scanList(listKeyRoot("root:right"), 0, c.right,
                           scanList(listKeyRoot("root:top"), 0, c.top, st0)))
                canCombine ==
                  /\ Every(c.top, atomicOrWire) /\ Every(c.right, atomicOrWire) /\ Every(c.bottom, atomicOrWire)
                  /\ Len(SelectSeq(c.top, notWireLike)) <= 1
                  /\ Len(SelectSeq(c.right, notWireLike)) <= 1
                  /\ Len(SelectSeq(c.bottom, notWireLike)) <= 1
                combined == SelectSeq(c.top \o c.right \o c.bottom, isAtomic)
            IN IF canCombine /\ Len(combined) >= 2
                 THEN push(st3, [type |-> "u_root", depth |-> 0, items |-> combined])
               ELSE st3
     ELSE scanList(listKeyRoot("root"), 0, c.items, st0)

(* reduceOneLevel. The Maps are sequences of [key, val], a later entry of a
   key hiding an earlier one; NoResistor stands for no replacement. *)
NoResistor == [kind |-> "none"]
mapGet(m, key) ==
  LET hits == {i \in 1..Len(m) : m[i].key = key}
  IN IF hits = {} THEN NoResistor ELSE m[CHOOSE i \in hits : \A j \in hits : j <= i].val
mapSet(m, key, val) == Append(m, [key |-> key, val |-> val])

(* the name without the counter *)
eqNameOfLevel(levelIndex, eqCounter) == <<"Req", levelIndex, ".", 1>>
eqNameOf(levelIndex, eqCounter) == <<"Req", levelIndex, ".", eqCounter>>
createEquivalentResistor(ohms, eqName, ctr) ==
  [kind |-> "resistor", id |-> newId("req", ctr), val |-> ohms, name |-> eqName, generated |-> TRUE]

mapOhms(items) == [i \in 1..Len(items) |-> atomicOhms(items[i])]

(* the loop over the targets, lines 446-508, from target k; acc holds the
   three Maps, uRootReplacement, reductions and the identifier counter *)
RECURSIVE reduceTargets(_, _, _, _)
reduceTargets(targets, k, levelIndex, acc) ==
  IF k > Len(targets) THEN [ok |-> TRUE] @@ acc
  ELSE
    LET target == targets[k]
        eqName == eqNameOf(levelIndex, k)
    IN Bind(IF target.type \in {"series_list", "u_root"} THEN seriesEquivalentOrError(target.items)
            ELSE IF target.type = "series_block" THEN seriesEquivalentOrError(target.node.items)
            ELSE parallelEquivalentOrError(target.node), LAMBDA eq :
       LET resistor == createEquivalentResistor(eq.ohms, eqName, acc.ctr)
           record(kind, inputs) == [kind |-> kind, depth |-> target.depth, eqName |-> eqName,
                                    resultOhms |-> eq.ohms, inputsOhms |-> inputs]
       IN
       IF ~eq.ok THEN [ok |-> FALSE, error |-> eq.error, ctr |-> acc.ctr]
       ELSE IF target.type = "series_list"
         THEN reduceTargets(targets, k + 1, levelIndex,
                [acc EXCEPT !.seriesListTargets = mapSet(@, target.listKey, resistor),
                            !.reductions = Append(@, record("series_list", mapOhms(target.items))),
                            !.ctr = @ + 1])
       ELSE IF target.type = "u_root"
         THEN reduceTargets(targets, k + 1, levelIndex,
                [acc EXCEPT !.uRootReplacement = resistor,
                            !.reductions = Append(@, record("series_list", mapOhms(target.items))),
                            !.ctr = @ + 1])
       ELSE IF target.type = "series_block"
         THEN reduceTargets(targets, k + 1, levelIndex,
                [acc EXCEPT !.seriesBlockTargets = mapSet(@, target.node.id, resistor),
                            !.reductions = Append(@, record("series_block", mapOhms(target.node.items))),
                            !.ctr = @ + 1])
       ELSE reduceTargets(targets, k + 1, levelIndex,
                [acc EXCEPT !.parallelBlockTargets = mapSet(@, target.node.id, resistor),
                            !.reductions = Append(@, record("parallel_block",
                                [b \in 1..Len(target.node.branches) |-> sumOhms(target.node.branches[b].items)])),
                            !.ctr = @ + 1]))

RECURSIVE transformList(_, _, _, _)
RECURSIVE transformNode(_, _, _)
transformList(listKey, depth, items, acc) ==
  LET replacement == mapGet(acc.seriesListTargets, listKey)
  IN IF replacement # NoResistor THEN <<replacement>>
     ELSE [i \in 1..Len(items) |-> transformNode(items[i], depth, acc)]

transformNode(node, depth, acc) ==
  IF node.kind = "series"
    THEN LET replacement == mapGet(acc.seriesBlockTargets, node.id)
         IN IF replacement # NoResistor THEN replacement
            ELSE [node EXCEPT !.items = transformList(listKeyForSeriesBlock(node.id), depth + 1, node.items, acc)]
  ELSE IF node.kind = "parallel"
    THEN LET replacement == mapGet(acc.parallelBlockTargets, node.id)
         IN IF replacement # NoResistor THEN replacement
            ELSE [node EXCEPT !.branches =
                    [b \in 1..Len(node.branches) |->
                       [node.branches[b] EXCEPT !.items =
                          transformList(listKeyForBranch(node.id, node.branches[b].id), depth + 1,
                                        node.branches[b].items, acc)]]]
  ELSE node

(* the shallowest depth taken for the deepest *)
MaxOfLeast(S) == CHOOSE x \in S : \A y \in S : x <= y
MaxOf(S) == CHOOSE x \in S : \A y \in S : y <= x

(* [ok, circuit, reductions, ctr] or [ok, error, ctr] *)
reduceOneLevel(c, levelIndex, ctr) ==
  Bind(scanCandidates(c), LAMBDA sc :
    IF sc.error # "" THEN [ok |-> FALSE, error |-> sc.error, ctr |-> ctr]
    ELSE IF Len(sc.candidates) = 0 THEN [ok |-> TRUE, circuit |-> c, reductions |-> <<>>, ctr |-> ctr]
    ELSE
      LET maxDepth == MaxOf({sc.candidates[i].depth : i \in 1..Len(sc.candidates)})
          targets == SelectSeq(sc.candidates, LAMBDA cd : cd.depth = maxDepth)
      IN Bind(reduceTargets(targets, 1, levelIndex,
                [seriesListTargets |-> <<>>, seriesBlockTargets |-> <<>>, parallelBlockTargets |-> <<>>,
                 uRootReplacement |-> NoResistor, reductions |-> <<>>, ctr |-> ctr]), LAMBDA done :
           IF ~done.ok THEN done
           ELSE [ok |-> TRUE,
                 circuit |->
                   IF c.route = "u"
                     THEN IF done.uRootReplacement # NoResistor
                            THEN [kind |-> "circuit", id |-> c.id, route |-> "straight",
                                  items |-> <<done.uRootReplacement>>]
                          ELSE [c EXCEPT !.top = transformList(listKeyRoot("root:top"), 0, c.top, done),
                                         !.right = transformList(listKeyRoot("root:right"), 0, c.right, done),
                                         !.bottom = transformList(listKeyRoot("root:bottom"), 0, c.bottom, done)]
                   ELSE [c EXCEPT !.items = transformList(listKeyRoot("root"), 0, c.items, done)],
                 reductions |-> done.reductions, ctr |-> done.ctr]))

DefaultMaxLevels == 50

(* the loop of computeReductionLevels, lines 564-576, from level i *)
RECURSIVE levelsFrom(_, _, _, _, _)
levelsFrom(current, i, maxLevels, levels, ctr) ==
  IF i > maxLevels
    THEN [res |-> [ok |-> FALSE, error |-> ErrLimit, levels |-> levels], ctr |-> ctr]
  ELSE Bind(reduceOneLevel(current, i, ctr), LAMBDA r :
         IF ~r.ok THEN [res |-> [ok |-> FALSE, error |-> r.error, levels |-> levels], ctr |-> r.ctr]
         ELSE IF Len(r.reductions) = 0 THEN [res |-> [ok |-> TRUE, levels |-> levels], ctr |-> r.ctr]
         ELSE levelsFrom(r.circuit, i + 1, maxLevels,
                         Append(levels, [index |-> i, circuit |-> r.circuit, reductions |-> r.reductions]),
                         r.ctr))

(* one pass more than maxLevels *)
computeReductionLevelsOneMore(c, maxLevels, ctr) ==
  levelsFrom(c, 1, maxLevels + 1, <<[index |-> 0, circuit |-> c, reductions |-> <<>>]>>, ctr)

computeReductionLevels(c, maxLevels, ctr) ==
  levelsFrom(c, 1, maxLevels, <<[index |-> 0, circuit |-> c, reductions |-> <<>>]>>, ctr)

----------------------------------------------------------------------------
(* nodeCircuitToSeriesParallelCircuit as one function, lines 128-274 *)
RECURSIVE rewriteLoop(_, _, _, _, _, _)
rewriteLoop(es, pN, mN, nCount, g, ctr) ==
  IF g >= GuardLimit THEN [res |-> Fail(ErrLimit), ctr |-> ctr]
  ELSE Bind(iterate(es, pN, mN, nCount, ctr), LAMBDA it :
         IF it.done THEN [res |-> it.res, ctr |-> it.ctr]
         ELSE rewriteLoop(it.edges, pN, mN, nCount, g + 1, it.ctr))

nodeCircuitToSeriesParallelCircuit(nc, ctr) ==
  Bind(canonicalize(nc), LAMBDA c :
    IF ~c.ok THEN [res |-> Fail(c.error), ctr |-> ctr]
    ELSE rewriteLoop(c.edges, c.plusN, c.minusN, c.nodeCount, 0, ctr))

----------------------------------------------------------------------------
(* The tree path of the superposition: buildCircuitGraph and
   solveCircuitBySuperposition. *)

(* buildCircuitGraph (graph.ts): state is [nextNode, elements] *)
generatedOf(node) == IF "generated" \in DOMAIN node THEN [generated |-> node.generated] ELSE [x \in {} |-> FALSE]
wireSeriesId(from, to, n) == Id("wire:series:" \o ToString(from) \o "->" \o ToString(to) \o ":", n)
ExternalSupplyId == Id("external_supply", 0)

RECURSIVE graphSeries(_, _, _, _)
RECURSIVE graphItems(_, _, _, _, _)
RECURSIVE graphNode(_, _, _, _)
RECURSIVE graphBranches(_, _, _, _, _)

push1(state, element) == [state EXCEPT !.elements = Append(@, element)]

(* buildSeries, lines 68-89 *)
graphSeries(state, items, from, to) ==
  IF Len(items) = 0
    THEN push1(state, [kind |-> "vsource", id |-> wireSeriesId(from, to, Len(state.elements)),
                       volts |-> Num(0), nPlus |-> from, nMinus |-> to, independent |-> FALSE])
  ELSE graphItems(state, items, 1, from, to)

(* the for loop of buildSeries, from item i with the cursor given *)
graphItems(state, items, i, cursor, to) ==
  IF i > Len(items) THEN state
  ELSE LET last == i = Len(items)
           next == IF last THEN to ELSE state.nextNode
           s1 == IF last THEN state ELSE [state EXCEPT !.nextNode = @ + 1]
       IN graphItems(graphNode(s1, items[i], cursor, next), items, i + 1, next, to)

(* buildNode, lines 95-142 *)
graphNode(state, node, from, to) ==
  IF node.kind = "resistor"
    THEN push1(state, [kind |-> "resistor", id |-> node.id, ohms |-> node.val, n1 |-> from, n2 |-> to]
                      @@ nameOf(node) @@ generatedOf(node))
  ELSE IF node.kind = "ammeter"
    THEN push1(state, [kind |-> "vsource", id |-> ammeterId(node.id), volts |-> Num(0),
                       nPlus |-> from, nMinus |-> to, independent |-> FALSE] @@ nameOf(node))
  ELSE IF node.kind = "vsource"
    THEN push1(state, [kind |-> "vsource", id |-> node.id, volts |-> node.val,
                       nPlus |-> from, nMinus |-> to, independent |-> TRUE] @@ nameOf(node))
  ELSE IF node.kind = "isource"
    THEN push1(state, [kind |-> "isource", id |-> node.id, amps |-> node.val,
                       nFrom |-> from, nTo |-> to, independent |-> TRUE] @@ nameOf(node))
  ELSE IF node.kind = "series" THEN graphSeries(state, node.items, from, to)
  ELSE graphBranches(state, node.branches, 1, from, to)

(* line 141: the loop over the branches *)
graphBranches(state, branches, i, from, to) ==
  IF i > Len(branches) THEN state
  ELSE graphBranches(graphSeries(state, branches[i].items, from, to), branches, i + 1, from, to)

RECURSIVE maxNodeId(_, _, _)
maxNodeId(elements, i, max) ==
  IF i > Len(elements) THEN max
  ELSE LET e == elements[i]
           m == IF e.kind = "resistor" THEN MaxOf({max, e.n1, e.n2})
                ELSE IF e.kind = "vsource" THEN MaxOf({max, e.nPlus, e.nMinus})
                ELSE MaxOf({max, e.nFrom, e.nTo})
       IN maxNodeId(elements, i + 1, m)

(* options?.externalSupplyVolts: NoSupply when there is none *)
NoSupply == [fin |-> FALSE, v |-> 0, d |-> 0]
PlusNode == 1
MinusNode == 0
FirstFreeNode == 2
buildCircuitGraph(c, externalSupplyVolts) ==
  LET built == graphSeries([nextNode |-> FirstFreeNode, elements |-> <<>>],
                           seriesItemsForCircuit(c), PlusNode, MinusNode)
      elements == IF externalSupplyVolts # NoSupply /\ isFinite(externalSupplyVolts)
                    THEN Append(built.elements,
                           [kind |-> "vsource", id |-> ExternalSupplyId, name |-> "U_s",
                            volts |-> externalSupplyVolts, nPlus |-> PlusNode, nMinus |-> MinusNode,
                            independent |-> TRUE])
                  ELSE built.elements
  IN [plusNode |-> PlusNode, minusNode |-> MinusNode,
      nodeCount |-> MaxOf({PlusNode, MinusNode, maxNodeId(elements, 1, 0)}) + 1,
      elements |-> elements]

(* solveCircuitBySuperposition (superposition.ts lines 56-113) *)
solveCircuitBySuperposition(c, externalSupplyVolts) ==
  Bind(buildCircuitGraph(c, externalSupplyVolts), LAMBDA graph :
    Bind(listIndependentSources(graph.elements), LAMBDA sources :
      IF Len(sources) = 0
        THEN [path |-> "tree", res |-> Fail(ErrNoSources), calls |-> <<>>, stage |-> "sources",
              elements |-> graph.elements, graph |-> graph]
      ELSE Bind(sourceLoop(graph.elements, sources, graph.nodeCount, graph.minusNode, FALSE, 1,
                           totalsAtStart(graph.elements, graph.nodeCount), <<>>), LAMBDA l :
        [path |-> "tree", calls |-> l.calls, stage |-> "solve", elements |-> graph.elements, graph |-> graph,
         res |-> IF ~l.done THEN Fail(l.error)
                 ELSE [ok |-> TRUE, sources |-> sources, cases |-> l.st.cases,
                       totalNodeVoltages |-> l.st.totalNodeVoltages,
                       totalVoltageSourceCurrentsById |-> l.st.totalVoltageSourceCurrentsById,
                       totalResistorCurrentsById |-> l.st.totalResistorCurrentsById,
                       totalResistorVoltagesById |-> l.st.totalResistorVoltagesById]])))

----------------------------------------------------------------------------
(* The facade (solve.ts): the indices of the resistors and ammeters and
   solveCircuit. The name of a resistor or an ammeter is a sequence of
   characters. The field currentFormulaLatex of a result is left out. *)

ErrSupply == "External supply voltage must be a finite, non-negative number."
ErrMissingResistorIndex == "Internal error: missing resistor index assignment."
ErrMissingAmmeterIndex == "Internal error: missing ammeter index assignment."

Space == " "
DigitChars == {"0", "1", "2", "3", "4", "5", "6", "7", "8", "9"}
digitValue(ch) == CHOOSE d \in 0..9 : ToString(d) = ch

(* name.trim() *)
RECURSIVE trimStart(_)
trimStart(chars) == IF chars # <<>> /\ Head(chars) = Space THEN trimStart(Tail(chars)) ELSE chars
RECURSIVE trimEnd(_)
trimEnd(chars) ==
  IF chars # <<>> /\ chars[Len(chars)] = Space THEN trimEnd(SubSeq(chars, 1, Len(chars) - 1)) ELSE chars
trim(chars) == trimEnd(trimStart(chars))

(* the characters as one string *)
RECURSIVE joinChars(_)
joinChars(chars) == IF chars = <<>> THEN "" ELSE Head(chars) \o joinChars(Tail(chars))

(* X*: the position after the characters of set from position i on *)
RECURSIVE star(_, _, _)
star(chars, i, set) == IF i <= Len(chars) /\ chars[i] \in set THEN star(chars, i + 1, set) ELSE i
(* X?: the position after one character of set, if there is one at i *)
opt(chars, i, set) == IF i <= Len(chars) /\ chars[i] \in set THEN i + 1 ELSE i

(* Number(m[1]) of the digits at positions from..to *)
RECURSIVE numberOf(_, _, _, _)
numberOf(chars, from, to, acc) ==
  IF from > to THEN acc ELSE numberOf(chars, from + 1, to, acc * 10 + digitValue(chars[from]))

(* the pattern of parseResistorIndex and parseAmmeterIndex, line 78: the
   letter in either case, spaces, at most one of _ and -, spaces, at most one
   brace, spaces, at most one _, spaces, at most one brace, spaces, one or
   more digits, spaces, closing braces, spaces, the end. -1 stands for null. *)
NoIndex == -1
matchIndex(chars, letters) ==
  IF chars = <<>> \/ Head(chars) \notin letters THEN NoIndex
  ELSE LET p1 == star(chars, 2, {Space})
           p2 == star(chars, opt(chars, p1, {"_", "-"}), {Space})
           p3 == star(chars, opt(chars, p2, {"{"}), {Space})
           p4 == star(chars, opt(chars, p3, {"_"}), {Space})
           p5 == star(chars, opt(chars, p4, {"{"}), {Space})
           p6 == star(chars, p5, DigitChars)
           p7 == star(chars, star(chars, star(chars, p6, {Space}), {"}"}), {Space})
       IN IF p6 = p5 \/ p7 <= Len(chars) THEN NoIndex
          ELSE numberOf(chars, p5, p6 - 1, 0)

parseIndex(name, letters) ==
  IF Len(trim(name)) = 0 THEN NoIndex ELSE matchIndex(trim(name), letters)
parseResistorIndex(name) == parseIndex(name, {"R", "r"})
parseAmmeterIndex(name) == parseIndex(name, {"A", "a"})

(* visitNodes with a function that collects: the nodes in the order of the visits *)
RECURSIVE visitNodes(_)
RECURSIVE visitBranches(_, _)
visitNodes(items) ==
  IF items = <<>> THEN <<>>
  ELSE LET node == Head(items)
       IN <<node>>
          \o (IF node.kind = "series" THEN visitNodes(node.items)
              ELSE IF node.kind = "parallel" THEN visitBranches(node.branches, 1)
              ELSE <<>>)
          \o visitNodes(Tail(items))
visitBranches(branches, i) ==
  IF i > Len(branches) THEN <<>> ELSE visitNodes(branches[i].items) \o visitBranches(branches, i + 1)

isGeneratedNode(n) == "generated" \in DOMAIN n /\ n.generated
(* r.name?.trim() ?? '' *)
labelOf(n) == IF "name" \in DOMAIN n THEN trim(n.name) ELSE <<>>
hasById(record, id) == \E k \in 1..Len(record) : record[k].id = id
usedIndices(record) == {record[k].value : k \in 1..Len(record)}

(* the texts of the two functions *)
ResistorWords == [letters |-> {"R", "r"}, word |-> "resistor", forms |-> "R1 / R_1 / R{1} / R_{1}",
                  sym |-> "R_"]
AmmeterWords == [letters |-> {"A", "a"}, word |-> "ammeter", forms |-> "A1 / A_1 / A{1} / A_{1}",
                 sym |-> "A_"]
errInvalidLabel(w, label) ==
  "Invalid " \o w.word \o " label \"" \o joinChars(label) \o "\". Use " \o w.forms \o " to set its index."
errInvalidIndex(w, idx) ==
  "Invalid " \o w.word \o " index " \o w.sym \o ToString(idx) \o ". Indices must be positive integers (>= 1)."
errDuplicateIndex(w, idx) ==
  "Duplicate " \o w.word \o " index " \o w.sym \o ToString(idx) \o ". Each " \o w.word
    \o " must have a unique index."

(* the first loop, lines 112-130: indexById is a Record of id -> index, used its
   values; unspecified collects the elements without a label. labelledLenient
   is a loop that lets a second element take an index already claimed. *)
RECURSIVE labelledLenient(_, _, _, _, _)
RECURSIVE labelled(_, _, _, _, _)
labelledLenient(elems, i, w, indexById, unspecified) ==
  IF i > Len(elems) THEN [ok |-> TRUE, indexById |-> indexById, unspecified |-> unspecified]
  ELSE LET label == labelOf(elems[i])
           idx == matchIndex(label, w.letters)
       IN IF Len(label) = 0 THEN labelledLenient(elems, i + 1, w, indexById, Append(unspecified, elems[i]))
          ELSE IF idx = NoIndex THEN Fail(errInvalidLabel(w, label))
          ELSE IF idx <= 0 THEN Fail(errInvalidIndex(w, idx))
          ELSE labelledLenient(elems, i + 1, w, setById(indexById, elems[i].id, idx), unspecified)
labelled(elems, i, w, indexById, unspecified) ==
  IF i > Len(elems) THEN [ok |-> TRUE, indexById |-> indexById, unspecified |-> unspecified]
  ELSE LET label == labelOf(elems[i])
           idx == matchIndex(label, w.letters)
       IN IF Len(label) = 0 THEN labelled(elems, i + 1, w, indexById, Append(unspecified, elems[i]))
          ELSE IF idx = NoIndex THEN Fail(errInvalidLabel(w, label))
          ELSE IF idx <= 0 THEN Fail(errInvalidIndex(w, idx))
          ELSE IF idx \in usedIndices(indexById) THEN Fail(errDuplicateIndex(w, idx))
          ELSE labelled(elems, i + 1, w, setById(indexById, elems[i].id, idx), unspecified)

(* while (used.has(next)) next += 1 *)
RECURSIVE nextFree(_, _)
nextFree(used, next) == IF next \in used THEN nextFree(used, next + 1) ELSE next
(* the second loop, lines 132-138; unlabelledFromOne is an assignment that
   numbers the unlabelled elements from 1 on whatever the labels claim *)
RECURSIVE unlabelledFromOne(_, _, _, _)
RECURSIVE unlabelled(_, _, _, _)
unlabelledFromOne(unspecified, i, next, indexById) ==
  IF i > Len(unspecified) THEN indexById
  ELSE unlabelledFromOne(unspecified, i + 1, next + 1, setById(indexById, unspecified[i].id, next))
unlabelled(unspecified, i, next, indexById) ==
  IF i > Len(unspecified) THEN indexById
  ELSE LET n == nextFree(usedIndices(indexById), next)
       IN unlabelled(unspecified, i + 1, n + 1, setById(indexById, unspecified[i].id, n))

assignFrom(elems, w) ==
  Bind(labelled(elems, 1, w, <<>>, <<>>), LAMBDA l :
    IF ~l.ok THEN l
    ELSE [ok |-> TRUE, indexById |-> unlabelled(l.unspecified, 1, 1, l.indexById)])

(* the resistors collected by lines 100-106; allResistors collects the
   generated ones whatever the option says *)
allResistors(c, includeGeneratedResistors) ==
  SelectSeq(visitNodes(seriesItemsForCircuit(c)), LAMBDA n : n.kind = "resistor")
includedResistors(c, includeGeneratedResistors) ==
  SelectSeq(visitNodes(seriesItemsForCircuit(c)),
            LAMBDA n : n.kind = "resistor" /\ ~(~includeGeneratedResistors /\ isGeneratedNode(n)))
assignResistorIndices(c, includeGeneratedResistors) ==
  assignFrom(includedResistors(c, includeGeneratedResistors), ResistorWords)
assignAmmeterIndices(c) ==
  assignFrom(SelectSeq(visitNodes(seriesItemsForCircuit(c)), LAMBDA n : n.kind = "ammeter"), AmmeterWords)

(* e.id.startsWith('ammeter:') and e.id.slice('ammeter:'.length), on the
   identifiers the generators hand out *)
IdPrefixes == {"a", "s", "p", "b", "req", "e", "eA", "eP", "eS", "n", "circuit"}
isAmmeterId(id) == \E q \in IdPrefixes : id.pfx = "ammeter:" \o q
sliceAmmeterId(id) == Id(CHOOSE q \in IdPrefixes : id.pfx = "ammeter:" \o q, id.n)

(* resistors.sort((a, b) => a.index - b.index): a stable sort *)
RECURSIVE insertByIndex(_, _)
insertByIndex(sorted, x) ==
  IF sorted = <<>> THEN <<x>>
  ELSE IF sorted[Len(sorted)].index <= x.index THEN Append(sorted, x)
  ELSE Append(insertByIndex(SubSeq(sorted, 1, Len(sorted) - 1), x), sorted[Len(sorted)])
RECURSIVE sortByIndex(_, _, _)
sortByIndex(xs, i, acc) == IF i > Len(xs) THEN acc ELSE sortByIndex(xs, i + 1, insertByIndex(acc, xs[i]))

(* lines 215-232, from element i: the results, or the internal error *)
RECURSIVE resistorResults(_, _, _, _, _, _)
resistorResults(elements, i, includeGenerated, resistorIndexById, solvedOk, acc) ==
  IF i > Len(elements) THEN [ok |-> TRUE, list |-> acc]
  ELSE LET r == elements[i]
       IN IF r.kind # "resistor" \/ (~includeGenerated /\ isGeneratedNode(r))
            THEN resistorResults(elements, i + 1, includeGenerated, resistorIndexById, solvedOk, acc)
          ELSE IF ~hasById(resistorIndexById, r.id) THEN Fail(ErrMissingResistorIndex)
          ELSE resistorResults(elements, i + 1, includeGenerated, resistorIndexById, solvedOk,
                 Append(acc, [id |-> r.id, index |-> getById(resistorIndexById, r.id), ohms |-> r.ohms,
                              currentA |-> getById(solvedOk.totalResistorCurrentsById, r.id),
                              voltageV |-> IF hasById(solvedOk.totalResistorVoltagesById, r.id)
                                             THEN getById(solvedOk.totalResistorVoltagesById, r.id)
                                           ELSE timesNum(getById(solvedOk.totalResistorCurrentsById, r.id), r.ohms)]
                             @@ nameOf(r) @@ generatedOf(r)))

(* lines 235-247, from element i *)
RECURSIVE ammeterResults(_, _, _, _, _)
ammeterResults(elements, i, ammeterIndexById, solvedOk, acc) ==
  IF i > Len(elements) THEN [ok |-> TRUE, list |-> acc]
  ELSE LET e == elements[i]
       IN IF ~(e.kind = "vsource" /\ isAmmeterId(e.id))
            THEN ammeterResults(elements, i + 1, ammeterIndexById, solvedOk, acc)
          ELSE IF ~hasById(ammeterIndexById, sliceAmmeterId(e.id)) THEN Fail(ErrMissingAmmeterIndex)
          ELSE ammeterResults(elements, i + 1, ammeterIndexById, solvedOk,
                 Append(acc, [id |-> sliceAmmeterId(e.id),
                              index |-> getById(ammeterIndexById, sliceAmmeterId(e.id)),
                              currentA |-> getById(solvedOk.totalVoltageSourceCurrentsById, e.id)]
                             @@ nameOf(e)))

(* solved.totalVoltageSourceCurrentsById['external_supply'], undefined being left out *)
supplyCurrentOf(solvedOk, externalSupplyVolts) ==
  IF externalSupplyVolts # NoSupply /\ isFinite(externalSupplyVolts)
      /\ hasById(solvedOk.totalVoltageSourceCurrentsById, ExternalSupplyId)
    THEN [externalSupplyCurrentA |-> getById(solvedOk.totalVoltageSourceCurrentsById, ExternalSupplyId)]
  ELSE [x \in {} |-> Num(0)]

(* solveCircuit: res is the value returned; calls the calls of solveMna made;
   stage "labels", "supply", "solve", "results" or "done" tells where it returned *)
solveCircuit(c, externalSupplyVolts, includeGenerated) ==
  Bind(assignResistorIndices(c, includeGenerated), LAMBDA assigned :
    IF ~assigned.ok THEN [res |-> Fail(assigned.error), calls |-> <<>>, stage |-> "labels"]
    ELSE Bind(assignAmmeterIndices(c), LAMBDA assignedAmmeters :
      IF ~assignedAmmeters.ok THEN [res |-> Fail(assignedAmmeters.error), calls |-> <<>>, stage |-> "labels"]
      ELSE IF externalSupplyVolts # NoSupply
              /\ (~isFinite(externalSupplyVolts) \/ isNegative(externalSupplyVolts))
        THEN [res |-> Fail(ErrSupply), calls |-> <<>>, stage |-> "supply"]
      ELSE Bind(solveCircuitBySuperposition(c, externalSupplyVolts), LAMBDA solved0 :
        IF ~solved0.res.ok THEN [res |-> solved0.res, calls |-> solved0.calls, stage |-> "solve"]
        ELSE Bind(buildCircuitGraph(c, externalSupplyVolts), LAMBDA graph :
          Bind(resistorResults(graph.elements, 1, includeGenerated, assigned.indexById, solved0.res, <<>>),
               LAMBDA rs :
            IF ~rs.ok THEN [res |-> rs, calls |-> solved0.calls, stage |-> "results"]
            ELSE Bind(ammeterResults(graph.elements, 1, assignedAmmeters.indexById, solved0.res, <<>>),
                      LAMBDA ams :
              IF ~ams.ok THEN [res |-> ams, calls |-> solved0.calls, stage |-> "results"]
              ELSE [calls |-> solved0.calls, stage |-> "done", graph |-> graph,
                    res |-> [ok |-> TRUE,
                             result |->
                               [resistors |-> sortByIndex(rs.list, 1, <<>>),
                                ammeters |-> sortByIndex(ams.list, 1, <<>>),
                                resistorIndexById |-> assigned.indexById,
                                ammeterIndexById |-> assignedAmmeters.indexById,
                                superposition |->
                                  [sources |-> solved0.res.sources, cases |-> solved0.res.cases,
                                   totalNodeVoltages |-> solved0.res.totalNodeVoltages,
                                   totalVoltageSourceCurrentsById |->
                                     solved0.res.totalVoltageSourceCurrentsById]]
                               @@ (IF externalSupplyVolts # NoSupply
                                     THEN [externalSupplyVolts |-> externalSupplyVolts]
                                   ELSE [x \in {} |-> Num(0)])
                               @@ supplyCurrentOf(solved0.res, externalSupplyVolts)]]))))))

----------------------------------------------------------------------------
(* Circuit-JSON (jsonIo.ts, model.ts). A JavaScript value is a record with a
   tag t: an object holds its properties as a function o from keys, an array
   its elements xs, a string either a literal lit or its characters chars, a
   number the value n. The text of JSON.stringify is the sequence of its
   tokens, the white space between them left out; a string token holds the
   escaped characters, a number token the characters of the decimal numeral.
   The numbers written here are integers. *)

Obj(o) == [t |-> "obj", o |-> o]
Arr(xs) == [t |-> "arr", xs |-> xs]
Str(lit) == [t |-> "str", lit |-> lit]
Chars(chars) == [t |-> "str", chars |-> chars]
NumV(n) == [t |-> "num", n |-> n]
Bool(b) == [t |-> "bool", b |-> b]
JNull == [t |-> "null"]
Undefined == [t |-> "undefined"]
Punct(ch) == [t |-> ch]
has(v, key) == v.t = "obj" /\ key \in DOMAIN v.o
prop(v, key) == IF has(v, key) THEN v.o[key] ELSE Undefined
orEmpty(v) == IF v = Undefined THEN Arr(<<>>) ELSE v

(* the order in which the properties of an object are written *)
KeyOrder == <<"kind", "id", "name", "route", "mode", "ohms", "volts", "amps", "generated",
              "items", "top", "right", "bottom", "branches">>

(* the characters of a string between its quotes, and back *)
RECURSIVE escapeChars(_)
escapeChars(chars) ==
  IF chars = <<>> THEN <<>>
  ELSE (IF Head(chars) \in {"\"", "\\"} THEN <<"\\", Head(chars)>> ELSE <<Head(chars)>>)
         \o escapeChars(Tail(chars))
RECURSIVE unescapeChars(_)
unescapeChars(text) ==
  IF text = <<>> THEN <<>>
  ELSE IF Head(text) = "\\" /\ Len(text) >= 2 THEN <<text[2]>> \o unescapeChars(Tail(Tail(text)))
  ELSE <<Head(text)>> \o unescapeChars(Tail(text))

(* the decimal numeral of an integer, and back *)
RECURSIVE digitsOf(_)
digitsOf(n) == IF n < 10 THEN <<ToString(n)>> ELSE Append(digitsOf(n \div 10), ToString(n % 10))
numeralOf(n) == IF n < 0 THEN <<"-">> \o digitsOf(0 - n) ELSE digitsOf(n)
valueOfNumeral(text) ==
  IF Head(text) = "-" THEN 0 - numberOf(text, 2, Len(text), 0) ELSE numberOf(text, 1, Len(text), 0)

(* JSON.stringify(value, null, 2) *)
RECURSIVE stringify(_)
RECURSIVE stringifyMembers(_, _, _)
RECURSIVE stringifyElements(_, _)
stringify(v) ==
  IF v.t = "obj" THEN <<Punct("{")>> \o stringifyMembers(v.o, 1, TRUE) \o <<Punct("}")>>
  ELSE IF v.t = "arr" THEN <<Punct("[")>> \o stringifyElements(v.xs, 1) \o <<Punct("]")>>
  ELSE IF v.t = "str"
    THEN IF "chars" \in DOMAIN v THEN <<[t |-> "str", text |-> escapeChars(v.chars)]>> ELSE <<v>>
  ELSE IF v.t = "num"
    THEN IF isFinite(v.n) THEN <<[t |-> "num", text |-> numeralOf(v.n.v)]>> ELSE <<JNull>>
  ELSE <<v>>
stringifyMembers(o, k, first) ==
  IF k > Len(KeyOrder) THEN <<>>
  ELSE IF KeyOrder[k] \notin DOMAIN o THEN stringifyMembers(o, k + 1, first)
  ELSE (IF first THEN <<>> ELSE <<Punct(",")>>)
         \o <<Str(KeyOrder[k]), Punct(":")>> \o stringify(o[KeyOrder[k]])
         \o stringifyMembers(o, k + 1, FALSE)
stringifyElements(xs, i) ==
  IF i > Len(xs) THEN <<>>
  ELSE (IF i = 1 THEN <<>> ELSE <<Punct(",")>>) \o stringify(xs[i]) \o stringifyElements(xs, i + 1)

(* JSON.parse(text): the value and the position after it, or a failure *)
NoParse == [ok |-> FALSE]
tokenAt(text, i) == IF i <= Len(text) THEN text[i] ELSE Punct("end")
RECURSIVE parseValue(_, _)
RECURSIVE parseMembers(_, _, _)
RECURSIVE parseElements(_, _, _)
parseValue(text, i) ==
  LET tok == tokenAt(text, i)
  IN IF tok.t = "{"
       THEN IF tokenAt(text, i + 1).t = "}" THEN [ok |-> TRUE, v |-> Obj(<<>>), next |-> i + 2]
            ELSE parseMembers(text, i + 1, <<>>)
     ELSE IF tok.t = "["
       THEN IF tokenAt(text, i + 1).t = "]" THEN [ok |-> TRUE, v |-> Arr(<<>>), next |-> i + 2]
            ELSE parseElements(text, i + 1, <<>>)
     ELSE IF tok.t = "str"
       THEN [ok |-> TRUE, next |-> i + 1,
             v |-> IF "text" \in DOMAIN tok THEN Chars(unescapeChars(tok.text)) ELSE tok]
     ELSE IF tok.t = "num"
       THEN [ok |-> TRUE, next |-> i + 1, v |-> NumV(Num(valueOfNumeral(tok.text)))]
     ELSE IF tok.t \in {"null", "bool"} THEN [ok |-> TRUE, next |-> i + 1, v |-> tok]
     ELSE NoParse
parseMembers(text, i, o) ==
  IF ~(tokenAt(text, i).t = "str" /\ "lit" \in DOMAIN tokenAt(text, i) /\ tokenAt(text, i + 1).t = ":")
    THEN NoParse
  ELSE Bind(parseValue(text, i + 2), LAMBDA member :
    IF ~member.ok THEN NoParse
    ELSE IF tokenAt(text, member.next).t = ","
      THEN parseMembers(text, member.next + 1, (text[i].lit :> member.v) @@ o)
    ELSE IF tokenAt(text, member.next).t = "}"
      THEN [ok |-> TRUE, v |-> Obj((text[i].lit :> member.v) @@ o), next |-> member.next + 1]
    ELSE NoParse)
parseElements(text, i, xs) ==
  Bind(parseValue(text, i), LAMBDA element :
    IF ~element.ok THEN NoParse
    ELSE IF tokenAt(text, element.next).t = ","
      THEN parseElements(text, element.next + 1, Append(xs, element.v))
    ELSE IF tokenAt(text, element.next).t = "]"
      THEN [ok |-> TRUE, v |-> Arr(Append(xs, element.v)), next |-> element.next + 1]
    ELSE NoParse)
jsonParse(text) ==
  Bind(parseValue(text, 1), LAMBDA whole :
    IF whole.ok /\ whole.next = Len(text) + 1 THEN [ok |-> TRUE, v |-> whole.v] ELSE NoParse)

(* model.ts: a schema gives the value with the properties it knows, or fails.
   The text of the issue is not modelled. *)
ErrInvalidJson == "Invalid JSON."
ErrSchema == "(path): (message of the first issue)"
FreshCircuitId == Str("circuit_new")
keep(v, keys) == Obj([key \in (DOMAIN v.o \cap keys) |-> v.o[key]])
isStr(v) == v.t = "str"
optional(v, key, test(_)) == ~has(v, key) \/ test(v.o[key])
isBool(v) == v.t = "bool"
finiteNumber(v) == v.t = "num" /\ isFinite(v.n)
positiveNumber(v) == finiteNumber(v) /\ greaterNum(v.n, Num(0))
withProp(v, key, value) == Obj((key :> value) @@ v.o)

RECURSIVE nodeSchema(_)
RECURSIVE nodesSchema(_, _, _)
RECURSIVE branchesSchema(_, _, _)
(* z.array(nodeSchema) from element i on *)
nodesSchema(xs, i, acc) ==
  IF i > Len(xs) THEN [ok |-> TRUE, data |-> Arr(acc)]
  ELSE Bind(nodeSchema(xs[i]), LAMBDA node :
         IF node.ok THEN nodesSchema(xs, i + 1, Append(acc, node.data)) ELSE node)
(* z.array(parallelBranchSchema) from element i on *)
branchesSchema(xs, i, acc) ==
  IF i > Len(xs) THEN [ok |-> TRUE, data |-> Arr(acc)]
  ELSE LET br == xs[i]
       IN IF ~(br.t = "obj" /\ has(br, "id") /\ isStr(br.o.id) /\ optional(br, "name", isStr)
                /\ has(br, "items") /\ br.o.items.t = "arr")
            THEN Fail(ErrSchema)
          ELSE Bind(nodesSchema(br.o.items.xs, 1, <<>>), LAMBDA items :
                 IF ~items.ok THEN items
                 ELSE branchesSchema(xs, i + 1,
                        Append(acc, withProp(keep(br, {"id", "name"}), "items", items.data))))
(* the union of the six node schemas: the literal of kind picks the member *)
nodeSchema(v) ==
  IF ~(v.t = "obj" /\ has(v, "kind") /\ has(v, "id") /\ isStr(v.o.id) /\ optional(v, "name", isStr))
    THEN Fail(ErrSchema)
  ELSE IF v.o.kind = Str("resistor")
    THEN IF has(v, "ohms") /\ positiveNumber(v.o.ohms) /\ optional(v, "generated", isBool)
           THEN [ok |-> TRUE, data |-> keep(v, {"kind", "id", "name", "ohms", "generated"})]
         ELSE Fail(ErrSchema)
  ELSE IF v.o.kind = Str("ammeter") THEN [ok |-> TRUE, data |-> keep(v, {"kind", "id", "name"})]
  ELSE IF v.o.kind = Str("vsource")
    THEN IF has(v, "volts") /\ finiteNumber(v.o.volts)
           THEN [ok |-> TRUE, data |-> keep(v, {"kind", "id", "name", "volts"})]
         ELSE Fail(ErrSchema)
  ELSE IF v.o.kind = Str("isource")
    THEN IF has(v, "amps") /\ finiteNumber(v.o.amps)
           THEN [ok |-> TRUE, data |-> keep(v, {"kind", "id", "name", "amps"})]
         ELSE Fail(ErrSchema)
  ELSE IF v.o.kind = Str("series")
    THEN IF has(v, "items") /\ v.o.items.t = "arr"
           THEN Bind(nodesSchema(v.o.items.xs, 1, <<>>), LAMBDA items :
                  IF ~items.ok THEN items
                  ELSE [ok |-> TRUE, data |-> withProp(keep(v, {"kind", "id", "name"}), "items", items.data)])
         ELSE Fail(ErrSchema)
  ELSE IF v.o.kind = Str("parallel")
    THEN IF has(v, "branches") /\ v.o.branches.t = "arr"
           THEN Bind(branchesSchema(v.o.branches.xs, 1, <<>>), LAMBDA branches :
                  IF ~branches.ok THEN branches
                  ELSE [ok |-> TRUE,
                        data |-> withProp(keep(v, {"kind", "id", "name"}), "branches", branches.data)])
         ELSE Fail(ErrSchema)
  ELSE Fail(ErrSchema)

ListKeys == <<"items", "top", "right", "bottom">>
(* the four optional lists of circuitSchema from list k on *)
RECURSIVE listsSchema(_, _, _)
listsSchema(v, k, acc) ==
  IF k > Len(ListKeys) THEN [ok |-> TRUE, data |-> acc]
  ELSE IF ~has(v, ListKeys[k]) THEN listsSchema(v, k + 1, acc)
  ELSE IF v.o[ListKeys[k]].t # "arr" THEN Fail(ErrSchema)
  ELSE Bind(nodesSchema(v.o[ListKeys[k]].xs, 1, <<>>), LAMBDA list :
         IF ~list.ok THEN list ELSE listsSchema(v, k + 1, withProp(acc, ListKeys[k], list.data)))
circuitSchema(v) ==
  IF ~(v.t = "obj" /\ has(v, "kind") /\ v.o.kind = Str("circuit") /\ has(v, "id") /\ isStr(v.o.id)
        /\ has(v, "route") /\ has(v.o.route, "mode") /\ v.o.route.o.mode \in {Str("straight"), Str("u")})
    THEN Fail(ErrSchema)
  ELSE listsSchema(v, 1, withProp(keep(v, {"kind", "id"}), "route", keep(v.o.route, {"mode"})))

(* jsonIo.ts *)
isObject(value) == value.t \in {"obj", "arr"}
isArray(value) == value.t = "arr"
migrateCircuitData(input) ==
  IF ~isObject(input) THEN input
  ELSE IF prop(input, "kind") # Str("circuit") THEN input
  ELSE LET id == IF isStr(prop(input, "id")) THEN input.o.id ELSE FreshCircuitId
           hasSegmentLists ==
             isArray(prop(input, "top")) \/ isArray(prop(input, "right")) \/ isArray(prop(input, "bottom"))
           routeRaw == IF isObject(prop(input, "route")) THEN input.o.route ELSE Undefined
           modeRaw == prop(routeRaw, "mode")
           mode == IF modeRaw = Str("straight") \/ modeRaw = Str("u") THEN modeRaw
                   ELSE IF modeRaw = Str("two-bend") THEN Str("u")
                   ELSE IF hasSegmentLists THEN Str("u") ELSE Str("straight")
           listOr(key, other) ==
             IF isArray(prop(input, key)) THEN input.o[key]
             ELSE IF isArray(prop(input, other)) THEN input.o[other]
             ELSE Arr(<<>>)
       IN IF mode = Str("straight")
            THEN Obj([kind |-> Str("circuit"), id |-> id, route |-> Obj([mode |-> mode]),
                      items |-> listOr("items", "bottom")])
          ELSE Obj([kind |-> Str("circuit"), id |-> id, route |-> Obj([mode |-> mode]),
                    top |-> listOr("top", "top"), right |-> listOr("right", "right"),
                    bottom |-> listOr("bottom", "items")])

(* exportItemsOnly is an export that writes the straight form on either route *)
exportItemsOnly(c) ==
  stringify(Obj([kind |-> Str("circuit"), id |-> c.o.id, route |-> c.o.route,
                 items |-> orEmpty(prop(c, "items"))]))
exportCircuitJson(c) ==
  stringify(IF c.o.route.o.mode = Str("u")
              THEN Obj([kind |-> Str("circuit"), id |-> c.o.id, route |-> c.o.route,
                        top |-> orEmpty(prop(c, "top")), right |-> orEmpty(prop(c, "right")),
                        bottom |-> orEmpty(prop(c, "bottom"))])
            ELSE Obj([kind |-> Str("circuit"), id |-> c.o.id, route |-> c.o.route,
                      items |-> orEmpty(prop(c, "items"))]))

parseCircuitJson(text) ==
  Bind(jsonParse(text), LAMBDA parsed :
    IF ~parsed.ok THEN Fail(ErrInvalidJson)
    ELSE Bind(circuitSchema(migrateCircuitData(parsed.v)), LAMBDA checked :
           IF checked.ok THEN [ok |-> TRUE, circuit |-> checked.data] ELSE Fail(checked.error)))

----------------------------------------------------------------------------
(* The calls as a state machine. While pc = "edit" the argument is chosen;
   Convert is the call of nodeCircuitToSeriesParallelCircuit up to its loop,
   Iterate one pass of the loop. *)

NodeIdOf(k) == Id("n", k)
Dangling == Id("n", 0)
EmptyNodeCircuit == [nodes |-> <<>>, edges |-> <<>>, plusNodeId |-> Null, minusNodeId |-> Null]
NoResult == [ok |-> FALSE, error |-> "(pending)"]
NoError == "(null)"
NoTrace == [ok |-> FALSE, error |-> "(pending)", levels |-> <<>>, maxLevels |-> 0]
NoCircuit == [kind |-> "circuit", id |-> Null, route |-> "straight", items |-> <<>>]

NotRun ==
  /\ plus = -1 /\ minus = -1
  /\ plusN = -1 /\ minusN = -1 /\ nodeCount = 0 /\ oldToNew = <<>>
  /\ edges = <<>> /\ guard = 0
  /\ result = NoResult /\ solved = NoResult /\ superposed = NoResult /\ mna = NoResult /\ again = NoResult
  /\ facade = NoResult /\ imported = NoResult /\ nodeCircuitError = NoError
  /\ trace = NoTrace /\ traceAgain = NoTrace
  /\ idCtr = 0

Idle ==
  /\ pc = "edit"
  /\ circuit = NoCircuit /\ converted = NoResult
  /\ NotRun

runVars == <<circuit, converted, pc, plus, minus, plusN, minusN, nodeCount, oldToNew, edges, guard,
             result, solved, superposed, facade, imported, nodeCircuitError, mna, again, trace, traceAgain, idCtr>>

(* The argument is built vertex by vertex and edge by edge; size counts both. *)
Size == Len(nodeCircuit.nodes) + Len(nodeCircuit.edges)
Untouched == nodeCircuit.plusNodeId = Null /\ nodeCircuit.minusNodeId = Null

GiveNode(max) ==
  /\ pc = "edit"
  /\ Size < max
  /\ nodeCircuit.edges = <<>>
  /\ Untouched
  /\ nodeCircuit' = [nodeCircuit EXCEPT !.nodes = Append(@, NodeIdOf(Len(@) + 1))]
  /\ UNCHANGED runVars

(* variants: a sequence of records [kind, val, both]; both = FALSE enters the
   edge with a before b in vertex order only (the kind does not read its
   direction). *)
GiveEdge(variants, max) ==
  /\ pc = "edit"
  /\ Size < max
  /\ Untouched
  /\ \E k \in 1..Len(variants), i, j \in 1..Len(nodeCircuit.nodes) :
       /\ i # j
       /\ variants[k].both \/ i < j
       /\ nodeCircuit' = [nodeCircuit EXCEPT !.edges =
                            Append(@, [id |-> Id("e", Len(@) + 1),
                                       kind |-> variants[k].kind, val |-> variants[k].val,
                                       a |-> NodeIdOf(i), b |-> NodeIdOf(j)] @@ nameOf(variants[k]))]
  /\ UNCHANGED runVars

(* an edge from a vertex to itself *)
GiveLoopEdge(variants, max) ==
  /\ pc = "edit"
  /\ Size < max
  /\ Untouched
  /\ \E k \in 1..Len(variants), i \in 1..Len(nodeCircuit.nodes) :
       nodeCircuit' = [nodeCircuit EXCEPT !.edges =
                         Append(@, [id |-> Id("e", Len(@) + 1),
                                    kind |-> variants[k].kind, val |-> variants[k].val,
                                    a |-> NodeIdOf(i), b |-> NodeIdOf(i)])]
  /\ UNCHANGED runVars

(* pairs: a set of <<plusNodeId, minusNodeId>> *)
GiveTerminals(pairs) ==
  /\ pc = "edit"
  /\ Untouched
  /\ \E t \in pairs :
       /\ t # <<Null, Null>>
       /\ nodeCircuit' = [nodeCircuit EXCEPT !.plusNodeId = t[1], !.minusNodeId = t[2]]
  /\ UNCHANGED runVars

Convert ==
  /\ pc = "edit"
  /\ LET c == canonicalize(nodeCircuit)
     IN /\ pc' = IF c.ok THEN "loop" ELSE "done"
        /\ result' = IF c.ok THEN NoResult ELSE Fail(c.error)
        /\ plus' = IF c.stage # "terminals" THEN c.plus ELSE -1
        /\ minus' = IF c.stage # "terminals" THEN c.minus ELSE -1
        /\ plusN' = IF c.stage \in {"shorted", "edges", "loop"} THEN c.plusN ELSE -1
        /\ minusN' = IF c.stage \in {"shorted", "edges", "loop"} THEN c.minusN ELSE -1
        /\ nodeCount' = IF c.stage \in {"shorted", "edges", "loop"} THEN c.nodeCount ELSE 0
        /\ oldToNew' = IF c.stage \in {"shorted", "edges", "loop"} THEN c.oldToNew ELSE <<>>
        /\ edges' = IF c.ok THEN c.edges ELSE <<>>
  /\ guard' = 0
  /\ UNCHANGED <<circuit, converted, nodeCircuit, solved, superposed, facade, imported, nodeCircuitError, mna, again, trace, traceAgain, idCtr>>

Iterate ==
  /\ pc = "loop"
  /\ IF guard >= GuardLimit
       THEN /\ pc' = "done" /\ result' = Fail(ErrLimit)
            /\ UNCHANGED <<edges, guard, idCtr>>
       ELSE LET it == iterate(edges, plusN, minusN, nodeCount, idCtr)
            IN /\ pc' = IF it.done THEN "done" ELSE "loop"
               /\ result' = IF it.done THEN it.res ELSE result
               /\ edges' = it.edges
               /\ guard' = IF it.done THEN guard ELSE guard + 1
               /\ idCtr' = it.ctr
  /\ UNCHANGED <<circuit, converted, nodeCircuit, plus, minus, plusN, minusN, nodeCount, oldToNew, solved, superposed, facade, imported, nodeCircuitError, mna, again,
               trace, traceAgain>>

(* solveNodeCircuitBySuperposition on the argument the reducer was given *)
Solve ==
  /\ pc = "done"
  /\ pc' = "solved"
  /\ solved' = solveCanon(nodeCircuit)
  /\ UNCHANGED <<circuit, converted, nodeCircuit, plus, minus, plusN, minusN, nodeCount, oldToNew, edges, guard,
                 result, superposed, facade, imported, nodeCircuitError, mna, again, trace, traceAgain, idCtr>>

(* the reducer called a second time on the same argument *)
Again ==
  /\ pc = "done"
  /\ pc' = "twice"
  /\ LET r == nodeCircuitToSeriesParallelCircuit(nodeCircuit, idCtr)
     IN again' = r.res /\ idCtr' = r.ctr
  /\ UNCHANGED <<circuit, converted, nodeCircuit, plus, minus, plusN, minusN, nodeCount, oldToNew, edges,
                 guard, result, solved, superposed, facade, imported, nodeCircuitError, mna, trace, traceAgain>>

(* computeReductionLevels on the tree the reducer returned, and once more *)
traceRest == <<circuit, converted, nodeCircuit, plus, minus, plusN, minusN, nodeCount, oldToNew, edges,
               guard, result, solved, superposed, facade, imported, nodeCircuitError, mna, again>>
Levels(limits) ==
  /\ pc = "twice" /\ result.ok
  /\ pc' = "traced"
  /\ \E k \in 1..Len(limits) :
       LET r == computeReductionLevels(result.circuit, limits[k], idCtr)
       IN /\ trace' = r.res @@ [maxLevels |-> limits[k]]
          /\ idCtr' = r.ctr
  /\ UNCHANGED traceAgain
  /\ UNCHANGED traceRest

LevelsAgain ==
  /\ pc = "traced"
  /\ pc' = "tracedTwice"
  /\ LET r == computeReductionLevels(result.circuit, trace.maxLevels, idCtr)
     IN /\ traceAgain' = r.res @@ [maxLevels |-> trace.maxLevels]
        /\ idCtr' = r.ctr
  /\ UNCHANGED trace
  /\ UNCHANGED traceRest

(* The tree handed to setCircuit is built item by item while pc = "tree";
   TreeSize counts its atoms and blocks. *)
RECURSIVE CountNodes(_)
CountNodes(items) ==
  IF items = <<>> THEN 0
  ELSE CountNodes(Tail(items)) + 1 +
       (IF Head(items).kind = "series" THEN CountNodes(Head(items).items)
        ELSE IF Head(items).kind = "parallel"
          THEN CountNodes(Head(items).branches[1].items) + CountNodes(Head(items).branches[2].items)
        ELSE 0)
TreeSize == CountNodes(seriesItemsForCircuit(circuit))
treeRest == <<pc, converted, nodeCircuit, plus, minus, plusN, minusN, nodeCount, oldToNew, edges, guard,
              result, solved, superposed, facade, imported, nodeCircuitError, mna, again, trace, traceAgain>>
Straight == pc = "tree" /\ circuit.route = "straight"

PutAtom(variants, max) ==
  /\ Straight /\ TreeSize < max
  /\ \E k \in 1..Len(variants) :
       circuit' = [circuit EXCEPT !.items =
                     Append(@, [kind |-> variants[k].kind, id |-> newId("a", idCtr), val |-> variants[k].val])]
  /\ idCtr' = idCtr + 1
  /\ UNCHANGED treeRest

(* createSeriesBlock / createParallelBlock appended to the root list *)
PutBlock(max) ==
  /\ Straight /\ TreeSize < max
  /\ \/ /\ circuit' = [circuit EXCEPT !.items =
                         Append(@, [kind |-> "series", id |-> newId("s", idCtr), items |-> <<>>])]
        /\ idCtr' = idCtr + 1
     \/ /\ circuit' = [circuit EXCEPT !.items =
                         Append(@, [kind |-> "parallel", id |-> newId("p", idCtr),
                                    branches |-> <<[id |-> newId("b", idCtr + 1), items |-> <<>>],
                                                   [id |-> newId("b", idCtr + 2), items |-> <<>>]>>])]
        /\ idCtr' = idCtr + 3
  /\ UNCHANGED treeRest

(* an atom appended inside the last block of the root list *)
PutInside(variants, max) ==
  /\ Straight /\ TreeSize < max
  /\ circuit.items # <<>>
  /\ LET n == Len(circuit.items)
         blk == circuit.items[n]
     IN \E k \in 1..Len(variants) :
          LET atom == [kind |-> variants[k].kind, id |-> newId("a", idCtr), val |-> variants[k].val]
          IN \/ /\ blk.kind = "series"
                /\ circuit' = [circuit EXCEPT !.items[n].items = Append(@, atom)]
             \/ /\ blk.kind = "parallel"
                /\ \E b \in 1..2 : circuit' = [circuit EXCEPT !.items[n].branches[b].items = Append(@, atom)]
  /\ idCtr' = idCtr + 1
  /\ UNCHANGED treeRest

(* the same tree laid out on the U route: top, right and bottom segments *)
Bend ==
  /\ Straight
  /\ circuit.items # <<>>
  /\ \E k \in 0..Len(circuit.items) :
       circuit' = [kind |-> "circuit", id |-> circuit.id, route |-> "u",
                   top |-> SubSeq(circuit.items, 1, k), right |-> <<>>,
                   bottom |-> SubSeq(circuit.items, k + 1, Len(circuit.items))]
  /\ UNCHANGED <<idCtr>>
  /\ UNCHANGED treeRest

(* setCircuit, store/circuitStore.ts lines 164-176: the tree to a node circuit,
   which is then handed to the reducer (Convert, Iterate) *)
ToGraph ==
  /\ pc = "tree"
  /\ LET c == seriesParallelCircuitToNodeCircuit(circuit, idCtr)
     IN /\ converted' = IF c.ok THEN [ok |-> TRUE] ELSE Fail(c.error)
        /\ nodeCircuit' = IF c.ok THEN c.nodeCircuit ELSE nodeCircuit
        /\ pc' = IF c.ok THEN "edit" ELSE "done"
        /\ idCtr' = c.ctr
  /\ UNCHANGED <<circuit, plus, minus, plusN, minusN, nodeCount, oldToNew, edges, guard, result, solved, superposed, facade, imported, nodeCircuitError, mna, again, trace, traceAgain>>

(* The edges offered to the calls *)
Wire == [kind |-> "wire", val |-> Num(0), both |-> FALSE]
R100 == [kind |-> "resistor", val |-> Num(100), both |-> FALSE]
V5 == [kind |-> "vsource", val |-> Num(5), both |-> TRUE]

NodeIds == {NodeIdOf(k) : k \in 1..Len(nodeCircuit.nodes)}
LastId == NodeIdOf(Len(nodeCircuit.nodes))
FewTerminals == IF Len(nodeCircuit.nodes) < 2 THEN {}
                ELSE {<<NodeIdOf(2), NodeIdOf(1)>>, <<LastId, NodeIdOf(1)>>}

Init == nodeCircuit = EmptyNodeCircuit /\ Idle

(* Spec: the reducer on graphs of wires, resistors and voltage sources *)
MaxSize == 6
Next ==
  \/ GiveNode(MaxSize)
  \/ GiveEdge(<<Wire, R100, V5>>, MaxSize)
  \/ GiveTerminals(FewTerminals)
  \/ Convert
  \/ Iterate
Spec == Init /\ [][Next]_vars

(* SpecLoop: the rewrite loop on larger graphs of resistors *)
MaxLoopSize == 8
NextLoop ==
  \/ GiveNode(MaxLoopSize)
  \/ GiveEdge(<<R100>>, MaxLoopSize)
  \/ GiveTerminals(FewTerminals)
  \/ Convert
  \/ Iterate
SpecLoop == Init /\ [][NextLoop]_vars

(* SpecWire: both calls on graphs where wires run in either direction *)
WireBoth == [kind |-> "wire", val |-> Num(0), both |-> TRUE]
MaxWireSize == 6
NextWire ==
  \/ GiveNode(MaxWireSize)
  \/ GiveEdge(<<WireBoth, R100>>, MaxWireSize)
  \/ Convert
  \/ Iterate
  \/ Solve
SpecWire == Init /\ [][NextWire]_vars

(* SpecCanon: both calls on graphs with shorted edges and invalid values *)
R0 == [kind |-> "resistor", val |-> Num(0), both |-> FALSE]
V5ab == [kind |-> "vsource", val |-> Num(5), both |-> FALSE]
V0 == [kind |-> "vsource", val |-> Num(0), both |-> FALSE]
MaxCanonSize == 6
NextCanon ==
  \/ GiveNode(MaxCanonSize)
  \/ GiveEdge(<<Wire, R100, R0, V5ab, V0>>, MaxCanonSize)
  \/ Convert
  \/ Iterate
  \/ Solve
SpecCanon == Init /\ [][NextCanon]_vars

(* SpecValues: both calls on graphs whose elements carry valid and invalid values *)
RNaN == [kind |-> "resistor", val |-> NaN, both |-> FALSE]
VNaN == [kind |-> "vsource", val |-> NaN, both |-> FALSE]
I1 == [kind |-> "isource", val |-> Num(1), both |-> FALSE]
INaN == [kind |-> "isource", val |-> NaN, both |-> FALSE]
Amm == [kind |-> "ammeter", val |-> Num(0), both |-> FALSE]
MaxValueSize == 5
NextValues ==
  \/ GiveNode(MaxValueSize)
  \/ GiveEdge(<<R100, R0, RNaN, V5ab, VNaN, I1, INaN, Amm>>, MaxValueSize)
  \/ Convert
  \/ Iterate
  \/ Solve
SpecValues == Init /\ [][NextValues]_vars

(* SpecTerm: the reducer on arguments with every kind of terminal reference *)
TerminalRefs ==
  {IF k = -1 THEN Null ELSE IF k = 0 THEN Dangling ELSE NodeIdOf(k) : k \in -1..Len(nodeCircuit.nodes)}
MaxTermSize == 5
NextTerm ==
  \/ GiveNode(MaxTermSize)
  \/ GiveEdge(<<R100, V5>>, MaxTermSize)
  \/ GiveLoopEdge(<<V5>>, MaxTermSize)
  \/ GiveTerminals(TerminalRefs \X TerminalRefs)
  \/ Convert
  \/ Iterate
SpecTerm == Init /\ [][NextTerm]_vars

(* SpecTwice: the reducer called twice on the same argument *)
MaxTwiceSize == 6
NextTwice ==
  \/ GiveNode(MaxTwiceSize)
  \/ GiveEdge(<<R100, V5>>, MaxTwiceSize)
  \/ Convert
  \/ Iterate
  \/ Again
  \/ Levels(<<1, DefaultMaxLevels>>)
  \/ LevelsAgain
SpecTwice == Init /\ [][NextTwice]_vars

(* SpecTree: a tree handed to setCircuit and read back through the reducer *)
InitTree ==
  /\ pc = "tree"
  /\ circuit = NoCircuit /\ converted = NoResult
  /\ nodeCircuit = EmptyNodeCircuit
  /\ NotRun
MaxTreeSize == 4
NextTree ==
  \/ PutAtom(<<R100, V5>>, MaxTreeSize)
  \/ PutBlock(MaxTreeSize)
  \/ PutInside(<<R100, Amm>>, MaxTreeSize)
  \/ Bend
  \/ ToGraph
  \/ Convert
  \/ Iterate
SpecTree == InitTree /\ [][NextTree]_vars

(* SpecLevels: computeReductionLevels on trees of the editor, blocks inside
   blocks. A path leads from the root list to the list an item is appended to:
   at each step into the last item of the list, the items of a series block
   (step 1) or branch 1 or 2 of a parallel block; the branches are filled in
   order, branch 1 before branch 2. *)
RECURSIVE pathOk(_, _)
pathOk(items, path) ==
  IF path = <<>> THEN TRUE
  ELSE IF items = <<>> THEN FALSE
  ELSE LET last == items[Len(items)]
       IN IF last.kind = "series" THEN Head(path) = 1 /\ pathOk(last.items, Tail(path))
          ELSE IF last.kind = "parallel"
            THEN /\ Head(path) = 2 \/ last.branches[2].items = <<>>
                 /\ pathOk(last.branches[Head(path)].items, Tail(path))
          ELSE FALSE

RECURSIVE appendAt(_, _, _)
appendAt(items, path, node) ==
  IF path = <<>> THEN Append(items, node)
  ELSE LET n == Len(items)
       IN IF items[n].kind = "series"
            THEN [items EXCEPT ![n].items = appendAt(@, Tail(path), node)]
          ELSE [items EXCEPT ![n].branches[Head(path)].items = appendAt(@, Tail(path), node)]

Paths == << <<>>, <<1>>, <<2>>, <<1, 1>>, <<1, 2>>, <<2, 1>>, <<2, 2>> >>

(* an atom, a series block or a parallel block (factory.ts) appended at a path *)
PutAtomAt(variants, max) ==
  /\ Straight /\ TreeSize < max
  /\ \E p \in 1..Len(Paths), k \in 1..Len(variants) :
       /\ pathOk(circuit.items, Paths[p])
       /\ circuit' = [circuit EXCEPT !.items =
                        appendAt(@, Paths[p], [kind |-> variants[k].kind, id |-> newId("a", idCtr),
                                               val |-> variants[k].val]
                                              @@ nameOf(variants[k]) @@ generatedOf(variants[k]))]
  /\ idCtr' = idCtr + 1
  /\ UNCHANGED treeRest

PutBlockAt(max) ==
  /\ Straight /\ TreeSize < max
  /\ \E p \in 1..Len(Paths) :
       /\ pathOk(circuit.items, Paths[p])
       /\ \/ /\ circuit' = [circuit EXCEPT !.items =
                              appendAt(@, Paths[p], [kind |-> "series", id |-> newId("s", idCtr), items |-> <<>>])]
             /\ idCtr' = idCtr + 1
          \/ /\ circuit' = [circuit EXCEPT !.items =
                              appendAt(@, Paths[p],
                                [kind |-> "parallel", id |-> newId("p", idCtr),
                                 branches |-> <<[id |-> newId("b", idCtr + 1), items |-> <<>>],
                                                [id |-> newId("b", idCtr + 2), items |-> <<>>]>>])]
             /\ idCtr' = idCtr + 3
  /\ UNCHANGED treeRest

(* const reduction = computeReductionLevels(circuit), with the limit given *)
Reduction(limits) ==
  /\ pc = "tree"
  /\ pc' = "levels"
  /\ \E k \in 1..Len(limits) :
       LET r == computeReductionLevels(circuit, limits[k], idCtr)
       IN /\ trace' = r.res @@ [maxLevels |-> limits[k]]
          /\ idCtr' = r.ctr
  /\ UNCHANGED traceAgain
  /\ UNCHANGED traceRest

MaxLevelSize == 4
NextLevels ==
  \/ PutAtomAt(<<R100, Amm>>, MaxLevelSize)
  \/ PutBlockAt(MaxLevelSize)
  \/ Bend
  \/ Reduction(<<1, 2, DefaultMaxLevels>>)
SpecLevels == InitTree /\ [][NextLevels]_vars

(* SpecPasses: computeReductionLevels pass by pass. While pc = "level" the
   loop of lines 564-576 runs: guard is i, trace.levels the levels so far and
   the tree of the last of them is current. *)
passRest == <<circuit, converted, nodeCircuit, plus, minus, plusN, minusN, nodeCount, oldToNew, edges,
              result, solved, superposed, facade, imported, nodeCircuitError, mna, again, traceAgain>>

Begin(limits) ==
  /\ pc = "tree"
  /\ pc' = "level"
  /\ \E k \in 1..Len(limits) :
       trace' = [ok |-> FALSE, error |-> "(pending)", maxLevels |-> limits[k],
                 levels |-> <<[index |-> 0, circuit |-> circuit, reductions |-> <<>>]>>]
  /\ guard' = 1
  /\ UNCHANGED idCtr
  /\ UNCHANGED passRest

(* return { error, levels } with the levels made before the failure *)
failedDroppingLast(tr, error) ==
  [tr EXCEPT !.error = error, !.levels = SubSeq(@, 1, Len(@) - 1)]
failed(tr, error) == [tr EXCEPT !.error = error]

Pass ==
  /\ pc = "level"
  /\ IF guard > trace.maxLevels
       THEN /\ pc' = "levels"
            /\ trace' = failed(trace, ErrLimit)
            /\ UNCHANGED <<guard, idCtr>>
       ELSE LET r == reduceOneLevel(trace.levels[Len(trace.levels)].circuit, guard, idCtr)
            IN /\ idCtr' = r.ctr
               /\ IF ~r.ok
                    THEN pc' = "levels" /\ trace' = failed(trace, r.error) /\ guard' = guard
                  ELSE IF Len(r.reductions) = 0
                    THEN /\ pc' = "levels" /\ guard' = guard
                         /\ trace' = [ok |-> TRUE, levels |-> trace.levels, maxLevels |-> trace.maxLevels]
                  ELSE /\ pc' = "level" /\ guard' = guard + 1
                       /\ trace' = [trace EXCEPT !.levels =
                                      Append(@, [index |-> guard, circuit |-> r.circuit,
                                                 reductions |-> r.reductions])]
  /\ UNCHANGED passRest

MaxPassSize == 4
NextPasses ==
  \/ PutAtomAt(<<R100, Amm>>, MaxPassSize)
  \/ PutBlockAt(MaxPassSize)
  \/ Bend
  \/ Begin(<<1, 2, DefaultMaxLevels>>)
  \/ Pass
SpecPasses == InitTree /\ [][NextPasses]_vars

(* SpecMna: solveMna called on the elements of a graph, with the node count
   of the graph or one below 2, and a ground inside and outside the nodes *)
R1 == [kind |-> "resistor", val |-> Num(1), both |-> FALSE]
R2 == [kind |-> "resistor", val |-> Num(2), both |-> FALSE]
mnaRest == <<circuit, converted, nodeCircuit, plus, minus, plusN, minusN, nodeCount, oldToNew, edges, guard,
             result, solved, superposed, facade, imported, nodeCircuitError, again, trace, traceAgain, idCtr>>

CallMna ==
  /\ pc = "edit"
  /\ Len(nodeCircuit.nodes) >= 2
  /\ LET c == solveCanon(nodeCircuit)
     IN /\ c.stage \in {"sources", "solve"}
        /\ \E n \in {0, 1, c.nodeCount}, g \in -1..c.nodeCount :
             mna' = [elements |-> c.elements, nodeCount |-> n, groundNode |-> g,
                     res |-> solveMna(c.elements, n, g)]
  /\ pc' = "mna"
  /\ UNCHANGED mnaRest

MaxMnaSize == 5
NextMna ==
  \/ GiveNode(MaxMnaSize)
  \/ GiveEdge(<<Wire, R1, R2, V5ab, I1, Amm>>, MaxMnaSize)
  \/ CallMna
SpecMna == Init /\ [][NextMna]_vars

(* SpecSuper: the two superposition drivers, the one on a node circuit with
   or without explicit terminals, the other on a tree of the straight route
   with or without an external supply *)
superRest == <<circuit, converted, nodeCircuit, plus, minus, plusN, minusN, nodeCount, oldToNew, edges, guard,
               result, solved, facade, imported, nodeCircuitError, mna, again, trace, traceAgain, idCtr>>
E1 == [kind |-> "vsource", val |-> Num(5), both |-> TRUE, name |-> "E1"]
V3 == [kind |-> "vsource", val |-> Num(3), both |-> TRUE]
J1 == [kind |-> "isource", val |-> Num(1), both |-> TRUE, name |-> "J1"]

Superpose ==
  /\ pc \in {"edit", "done"}
  /\ pc' = "superposed"
  /\ superposed' = solveNodeCircuitBySuperposition(nodeCircuit)
  /\ UNCHANGED superRest

(* supplies: a sequence of values of options.externalSupplyVolts *)
SuperposeTree(supplies) ==
  /\ pc = "tree"
  /\ pc' = "superposed"
  /\ \E k \in 1..Len(supplies) : superposed' = solveCircuitBySuperposition(circuit, supplies[k])
  /\ UNCHANGED superRest

MaxSuperSize == 4
MaxSuperTreeSize == 3
NextSuper ==
  \/ GiveNode(MaxSuperSize)
  \/ GiveEdge(<<Wire, R1, R2, E1, V3, J1, I1, Amm>>, MaxSuperSize)
  \/ GiveTerminals(FewTerminals)
  \/ Superpose
  \/ PutAtomAt(<<R1, E1, VNaN, J1, Amm>>, MaxSuperTreeSize)
  \/ PutBlockAt(MaxSuperTreeSize)
  \/ SuperposeTree(<<NoSupply, Num(5), NaN>>)
SpecSuper == (Init \/ InitTree) /\ [][NextSuper]_vars

(* SpecBridge: four vertices, resistors on the arms of a bridge in the order
   of BridgeArms, one voltage source across its corners 1 and 4; the reducer and
   the solver are called on the same argument *)
BridgeArms == <<(<<1, 2>>), (<<1, 3>>), (<<2, 3>>), (<<2, 4>>), (<<3, 4>>)>>
BridgeCorners == <<1, 4>>
FourNodes == [EmptyNodeCircuit EXCEPT !.nodes = <<NodeIdOf(1), NodeIdOf(2), NodeIdOf(3), NodeIdOf(4)>>]
InitBridge == nodeCircuit = FourNodes /\ Idle
ArmsGiven == Len(SelectSeq(nodeCircuit.edges, LAMBDA e : e.kind = "resistor"))

GiveArm(variants, max) ==
  /\ pc = "edit"
  /\ Len(nodeCircuit.edges) < max
  /\ ArmsGiven < Len(BridgeArms)
  /\ Untouched
  /\ \E k \in 1..Len(variants) :
       LET arm == BridgeArms[ArmsGiven + 1]
       IN nodeCircuit' = [nodeCircuit EXCEPT !.edges =
                            Append(@, [id |-> Id("e", Len(@) + 1),
                                       kind |-> variants[k].kind, val |-> variants[k].val,
                                       a |-> NodeIdOf(arm[1]), b |-> NodeIdOf(arm[2])])]
  /\ UNCHANGED runVars

GiveAcross(variants, max) ==
  /\ pc = "edit"
  /\ Len(nodeCircuit.edges) < max
  /\ firstVsource(nodeCircuit) = 0
  /\ Untouched
  /\ \E k \in 1..Len(variants), swap \in BOOLEAN :
       nodeCircuit' = [nodeCircuit EXCEPT !.edges =
                         Append(@, [id |-> Id("e", Len(@) + 1),
                                    kind |-> variants[k].kind, val |-> variants[k].val,
                                    a |-> NodeIdOf(BridgeCorners[IF swap THEN 2 ELSE 1]),
                                    b |-> NodeIdOf(BridgeCorners[IF swap THEN 1 ELSE 2])]
                                   @@ nameOf(variants[k]))]
  /\ UNCHANGED runVars

MaxBridgeSize == 6
NextBridge ==
  \/ GiveArm(<<R1, R2>>, MaxBridgeSize)
  \/ GiveAcross(<<E1>>, MaxBridgeSize)
  \/ GiveTerminals({<<NodeIdOf(1), NodeIdOf(4)>>, <<NodeIdOf(4), NodeIdOf(1)>>})
  \/ Convert
  \/ Iterate
  \/ Superpose
SpecBridge == InitBridge /\ [][NextBridge]_vars

(* SpecStore: the store (circuitStore.ts). An edit of the node circuit
   derives the tree again; insertNode and reset write the tree alone. The
   identifiers of vertices and edges come from idCtr; those of a derived tree
   are fresh and are numbered from 0 in each tree. An edit that returns at
   once changes nothing and is not a step. *)
storeRest == <<converted, plus, minus, plusN, minusN, nodeCount, oldToNew, edges, guard,
               result, solved, superposed, facade, imported, mna, again, trace, traceAgain>>
createCircuit == [kind |-> "circuit", id |-> Id("circuit", 0), route |-> "u",
                  top |-> <<>>, right |-> <<>>, bottom |-> <<>>]
deriveTreeCircuitFromNodeCircuit(nc) == nodeCircuitToSeriesParallelCircuit(nc, 0).res
nodeIdsOf(nc) == {nc.nodes[i] : i \in 1..Len(nc.nodes)}
edgeIdsOf(nc) == {nc.edges[i].id : i \in 1..Len(nc.edges)}
edgeById(nc, edgeId) == nc.edges[CHOOSE i \in 1..Len(nc.edges) : nc.edges[i].id = edgeId]
mapEdge(nc, edgeId, change(_)) ==
  [nc EXCEPT !.edges = [i \in 1..Len(@) |-> IF @[i].id = edgeId THEN change(@[i]) ELSE @[i]]]
(* the edge that addNodeCircuitEdge, addParallelOnEdge and addSeriesOnEdge make *)
newEdge(kind, ctr, a, b) ==
  [id |-> Id("e", ctr), kind |-> kind, a |-> a, b |-> b,
   val |-> IF kind = "resistor" THEN Num(100) ELSE IF kind = "vsource" THEN Num(5)
           ELSE IF kind = "isource" THEN Rat(1, 100) ELSE Num(0)]

InitStore ==
  /\ pc = "store"
  /\ nodeCircuit = EmptyNodeCircuit
  /\ circuit = createCircuit /\ converted = NoResult
  /\ plus = -1 /\ minus = -1 /\ plusN = -1 /\ minusN = -1 /\ nodeCount = 0 /\ oldToNew = <<>>
  /\ edges = <<>> /\ guard = 0
  /\ result = NoResult /\ solved = NoResult /\ superposed = NoResult /\ mna = NoResult /\ again = NoResult
  /\ facade = NoResult /\ imported = NoResult
  /\ nodeCircuitError = ErrNeedNodes
  /\ trace = NoTrace /\ traceAgain = NoTrace
  /\ idCtr = 0

(* the last three lines of every edit of the node circuit *)
Derive(nc, ctr) ==
  /\ pc = "store"
  /\ nodeCircuit' = nc
  /\ idCtr' = ctr
  /\ Bind(deriveTreeCircuitFromNodeCircuit(nc), LAMBDA derived :
          /\ circuit' = (IF derived.ok THEN derived.circuit ELSE circuit)
          /\ nodeCircuitError' = (IF derived.ok THEN NoError ELSE derived.error))
  /\ UNCHANGED <<pc>>
  /\ UNCHANGED storeRest

addNodeCircuitNode(nc, ctr) == [nc EXCEPT !.nodes = Append(@, Id("n", ctr))]
(* removeNodeKeepingEdges is a removal that leaves the edges of the vertex *)
removeNodeKeepingEdges(nc, nodeId) ==
  LET p == IF nc.plusNodeId = nodeId THEN Null ELSE nc.plusNodeId
      m == IF nc.minusNodeId = nodeId THEN Null ELSE nc.minusNodeId
  IN [nodes |-> SelectSeq(nc.nodes, LAMBDA n : n # nodeId),
      edges |-> nc.edges,
      plusNodeId |-> p,
      minusNodeId |-> IF p # Null /\ p = m THEN Null ELSE m]
removeNodeCircuitNode(nc, nodeId) ==
  LET p == IF nc.plusNodeId = nodeId THEN Null ELSE nc.plusNodeId
      m == IF nc.minusNodeId = nodeId THEN Null ELSE nc.minusNodeId
  IN [nodes |-> SelectSeq(nc.nodes, LAMBDA n : n # nodeId),
      edges |-> SelectSeq(nc.edges, LAMBDA e : e.a # nodeId /\ e.b # nodeId),
      plusNodeId |-> p,
      minusNodeId |-> IF p # Null /\ p = m THEN Null ELSE m]
addNodeCircuitEdge(nc, kind, a, b, ctr) == [nc EXCEPT !.edges = Append(@, newEdge(kind, ctr, a, b))]
updateNodeCircuitEdgeEndpoints(nc, edgeId, a, b) ==
  mapEdge(nc, edgeId, LAMBDA e : [e EXCEPT !.a = a, !.b = b])
flipNodeCircuitEdge(nc, edgeId) ==
  mapEdge(nc, edgeId, LAMBDA e : [e EXCEPT !.a = e.b, !.b = e.a])
addParallelOnEdge(nc, edgeId, kind, ctr) ==
  [nc EXCEPT !.edges = Append(@, newEdge(kind, ctr, edgeById(nc, edgeId).a, edgeById(nc, edgeId).b))]
addSeriesOnEdge(nc, edgeId, kind, ctr) ==
  LET mid == Id("n", ctr)
      oldB == edgeById(nc, edgeId).b
      moved == mapEdge(nc, edgeId, LAMBDA e : [e EXCEPT !.b = mid])
  IN [moved EXCEPT !.nodes = Append(@, mid), !.edges = Append(@, newEdge(kind, ctr + 1, mid, oldB))]
removeNodeCircuitEdge(nc, edgeId) ==
  LET left == SelectSeq(nc.edges, LAMBDA e : e.id # edgeId)
      degreeOf(n) == Cardinality({i \in 1..Len(left) : left[i].a = n})
                       + Cardinality({i \in 1..Len(left) : left[i].b = n})
      nodes == SelectSeq(nc.nodes, LAMBDA n :
                 IF nc.plusNodeId # Null /\ n = nc.plusNodeId THEN TRUE
                 ELSE IF nc.minusNodeId # Null /\ n = nc.minusNodeId THEN TRUE
                 ELSE degreeOf(n) > 0)
      kept == {nodes[i] : i \in 1..Len(nodes)}
  IN [nodes |-> nodes, edges |-> left,
      plusNodeId |-> IF nc.plusNodeId # Null /\ nc.plusNodeId \notin kept THEN Null ELSE nc.plusNodeId,
      minusNodeId |-> IF nc.minusNodeId # Null /\ nc.minusNodeId \notin kept THEN Null ELSE nc.minusNodeId]
swapNodeCircuitTerminals(nc) == [nc EXCEPT !.plusNodeId = nc.minusNodeId, !.minusNodeId = nc.plusNodeId]

AddNodeCircuitNode(max) ==
  /\ idCtr < max
  /\ Derive(addNodeCircuitNode(nodeCircuit, idCtr + 1), idCtr + 1)
RemoveNodeCircuitNode ==
  \E nodeId \in nodeIdsOf(nodeCircuit) : Derive(removeNodeCircuitNode(nodeCircuit, nodeId), idCtr)
SetNodeCircuitPlusNode ==
  \E nodeId \in nodeIdsOf(nodeCircuit) :
    /\ nodeId # nodeCircuit.minusNodeId
    /\ Derive([nodeCircuit EXCEPT !.plusNodeId = nodeId], idCtr)
SetNodeCircuitMinusNode ==
  \E nodeId \in nodeIdsOf(nodeCircuit) :
    /\ nodeId # nodeCircuit.plusNodeId
    /\ Derive([nodeCircuit EXCEPT !.minusNodeId = nodeId], idCtr)
AddNodeCircuitEdge(kinds, max) ==
  /\ idCtr < max
  /\ \E kind \in kinds, a, b \in nodeIdsOf(nodeCircuit) :
       /\ a # b
       /\ Derive(addNodeCircuitEdge(nodeCircuit, kind, a, b, idCtr + 1), idCtr + 1)
UpdateNodeCircuitEdgeEndpoints ==
  \E edgeId \in edgeIdsOf(nodeCircuit), a, b \in nodeIdsOf(nodeCircuit) :
    /\ a # b
    /\ Derive(updateNodeCircuitEdgeEndpoints(nodeCircuit, edgeId, a, b), idCtr)
FlipNodeCircuitEdge ==
  \E edgeId \in edgeIdsOf(nodeCircuit) : Derive(flipNodeCircuitEdge(nodeCircuit, edgeId), idCtr)
AddParallelOnEdge(kinds, max) ==
  /\ idCtr < max
  /\ \E edgeId \in edgeIdsOf(nodeCircuit), kind \in kinds :
       Derive(addParallelOnEdge(nodeCircuit, edgeId, kind, idCtr + 1), idCtr + 1)
AddSeriesOnEdge(kinds, max) ==
  /\ idCtr + 1 < max
  /\ \E edgeId \in edgeIdsOf(nodeCircuit), kind \in kinds :
       Derive(addSeriesOnEdge(nodeCircuit, edgeId, kind, idCtr + 1), idCtr + 2)
(* edgeId is the id of an edge, or of none *)
RemoveNodeCircuitEdge ==
  \E edgeId \in edgeIdsOf(nodeCircuit) \cup {Id("e", 0)} :
    Derive(removeNodeCircuitEdge(nodeCircuit, edgeId), idCtr)
SwapNodeCircuitTerminals == Derive(swapNodeCircuitTerminals(nodeCircuit), idCtr)

(* insertNode on a list of the root: list.splice(index, 0, node) *)
rootLists(c) == IF c.route = "u" THEN {"top", "right", "bottom"} ELSE {"items"}
rootSize(c) == Len(seriesItemsForCircuit(c))
splice(list, index, node) == SubSeq(list, 1, index) \o <<node>> \o SubSeq(list, index + 1, Len(list))
InsertNode(kinds, max, maxTree) ==
  /\ pc = "store"
  /\ idCtr < max
  /\ rootSize(circuit) < maxTree
  /\ \E key \in rootLists(circuit), kind \in kinds :
       \E index \in 0..Len(circuit[key]) :
         circuit' = [circuit EXCEPT ![key] =
                       splice(@, index, [kind |-> kind, id |-> Id("r", idCtr + 1),
                                         val |-> IF kind = "resistor" THEN Num(100) ELSE Num(0)])]
  /\ idCtr' = idCtr + 1
  /\ UNCHANGED <<pc, nodeCircuit, nodeCircuitError>>
  /\ UNCHANGED storeRest
Reset ==
  /\ pc = "store"
  /\ circuit' = createCircuit
  /\ UNCHANGED <<pc, nodeCircuit, nodeCircuitError, idCtr>>
  /\ UNCHANGED storeRest

MaxStoreIds == 5
MaxStoreTree == 1
NextStore ==
  \/ AddNodeCircuitNode(MaxStoreIds)
  \/ RemoveNodeCircuitNode
  \/ SetNodeCircuitPlusNode
  \/ SetNodeCircuitMinusNode
  \/ FlipNodeCircuitEdge
  \/ AddParallelOnEdge({"resistor"}, MaxStoreIds)
  \/ AddSeriesOnEdge({"ammeter"}, MaxStoreIds)
  \/ AddNodeCircuitEdge({"resistor", "vsource"}, MaxStoreIds)
  \/ UpdateNodeCircuitEdgeEndpoints
  \/ RemoveNodeCircuitEdge
  \/ SwapNodeCircuitTerminals
  \/ InsertNode({"resistor"}, MaxStoreIds, MaxStoreTree)
  \/ Reset
SpecStore == InitStore /\ [][NextStore]_vars

(* SpecSolve: solveCircuit on trees of resistors and ammeters, with and
   without an external supply *)
facadeRest == <<circuit, converted, nodeCircuit, plus, minus, plusN, minusN, nodeCount, oldToNew, edges, guard,
                result, solved, superposed, imported, nodeCircuitError, mna, again, trace, traceAgain, idCtr>>

(* supplies: values of analysis.externalSupplyVolts; includes: values of
   options.includeGeneratedResistors *)
SolveCircuit(supplies, includes) ==
  /\ pc = "tree"
  /\ pc' = "facade"
  /\ \E k \in 1..Len(supplies), j \in 1..Len(includes) :
       facade' = solveCircuit(circuit, supplies[k], includes[j])
                   @@ [supply |-> supplies[k], includeGenerated |-> includes[j]]
  /\ UNCHANGED facadeRest

MaxSolveSize == 3
NextSolve ==
  \/ PutAtomAt(<<R1, R2, Amm>>, MaxSolveSize)
  \/ PutBlockAt(MaxSolveSize)
  \/ Bend
  \/ SolveCircuit(<<NoSupply, Num(6), Num(0), Num(-6), NaN>>, <<FALSE>>)
SpecSolve == InitTree /\ [][NextSolve]_vars

(* SpecJson: circuits of the type Circuit, built as the store builds them or
   with lists the route does not use, exported and parsed again *)
jsonRest == <<circuit, converted, nodeCircuit, plus, minus, plusN, minusN, nodeCount, oldToNew, edges, guard,
              result, solved, superposed, facade, nodeCircuitError, mna, again, trace, traceAgain, idCtr>>
EmptyCircuitJs ==
  Obj([kind |-> Str("circuit"), id |-> Str("circuit1"), route |-> Obj([mode |-> Str("straight")]),
       items |-> Arr(<<>>)])
InitJson ==
  /\ pc = "json"
  /\ circuit = NoCircuit /\ converted = NoResult
  /\ nodeCircuit = EmptyNodeCircuit
  /\ plus = -1 /\ minus = -1 /\ plusN = -1 /\ minusN = -1 /\ nodeCount = 0 /\ oldToNew = <<>>
  /\ edges = <<>> /\ guard = 0
  /\ result = NoResult /\ solved = NoResult /\ superposed = NoResult /\ mna = NoResult /\ again = NoResult
  /\ facade = NoResult /\ nodeCircuitError = NoError
  /\ trace = NoTrace /\ traceAgain = NoTrace
  /\ idCtr = 0
  /\ imported = [circuit |-> EmptyCircuitJs]

(* the nodes put into the lists; k makes the id *)
JsNodes(k) ==
  << Obj([kind |-> Str("resistor"), id |-> Str("g" \o ToString(k)), ohms |-> NumV(Num(120)),
          name |-> Chars(<<"R", "\"", "e", "q", "\\", "1">>), generated |-> Bool(TRUE)]),
     Obj([kind |-> Str("resistor"), id |-> Str("z" \o ToString(k)), ohms |-> NumV(Num(0))]),
     Obj([kind |-> Str("vsource"), id |-> Str("v" \o ToString(k)), volts |-> NumV(Num(-5)),
          name |-> Chars(<<"E", "1">>)]),
     Obj([kind |-> Str("series"), id |-> Str("s" \o ToString(k)),
          items |-> Arr(<<Obj([kind |-> Str("ammeter"), id |-> Str("a" \o ToString(k))])>>)]),
     Obj([kind |-> Str("parallel"), id |-> Str("p" \o ToString(k)),
          branches |-> Arr(<<Obj([id |-> Str("b" \o ToString(k)),
                                  items |-> Arr(<<Obj([kind |-> Str("isource"),
                                                       id |-> Str("i" \o ToString(k)),
                                                       amps |-> NumV(Num(10))])>>)]),
                             Obj([id |-> Str("c" \o ToString(k)), items |-> Arr(<<>>)])>>)]) >>
JsLists(c) == {key \in DOMAIN c.o : key \in {"items", "top", "right", "bottom"}}
JsOwnLists(c) == IF c.o.route.o.mode = Str("u") THEN {"top", "right", "bottom"} ELSE {"items"}
RECURSIVE SumOver(_, _)
SumOver(f, keys) ==
  IF keys = {} THEN 0 ELSE LET key == CHOOSE x \in keys : TRUE IN Len(f[key].xs) + SumOver(f, keys \ {key})
JsSize(c) == SumOver(c.o, JsLists(c))

(* insertNode on a root list *)
JsPut(max) ==
  /\ pc = "json"
  /\ JsSize(imported.circuit) < max
  /\ \E key \in JsLists(imported.circuit), k \in 1..Len(JsNodes(0)) :
       imported' = [circuit |-> withProp(imported.circuit, key,
                                         Arr(Append(imported.circuit.o[key].xs,
                                                    JsNodes(JsSize(imported.circuit) + 1)[k])))]
  /\ UNCHANGED <<pc>>
  /\ UNCHANGED jsonRest

(* setRootRouteMode of the store *)
JsSetRoute ==
  /\ pc = "json"
  /\ LET c == imported.circuit
         listOf(key) == orEmpty(prop(c, key)).xs
     IN imported' =
          [circuit |->
             IF c.o.route.o.mode = Str("u")
               THEN Obj([kind |-> Str("circuit"), id |-> c.o.id, route |-> Obj([mode |-> Str("straight")]),
                         items |-> Arr(listOf("top") \o listOf("right") \o listOf("bottom"))])
             ELSE Obj([kind |-> Str("circuit"), id |-> c.o.id, route |-> Obj([mode |-> Str("u")]),
                       top |-> Arr(<<>>), right |-> Arr(<<>>), bottom |-> Arr(listOf("items"))])]
  /\ UNCHANGED <<pc>>
  /\ UNCHANGED jsonRest

(* a value of the type Circuit that the store does not build: one optional
   list left out, or one list of the other route added *)
JsLoosen ==
  /\ pc = "json"
  /\ JsLists(imported.circuit) = JsOwnLists(imported.circuit)
  /\ \/ \E key \in JsLists(imported.circuit) :
          imported' = [circuit |-> Obj([x \in (DOMAIN imported.circuit.o \ {key}) |-> imported.circuit.o[x]])]
     \/ \E key \in {"items", "top", "right", "bottom"} \ JsLists(imported.circuit) :
          imported' = [circuit |-> withProp(imported.circuit, key, Arr(<<>>))]
  /\ UNCHANGED <<pc>>
  /\ UNCHANGED jsonRest

RoundTrip ==
  /\ pc = "json"
  /\ pc' = "imported"
  /\ imported' = [circuit |-> imported.circuit,
                  text |-> exportCircuitJson(imported.circuit),
                  parsed |-> parseCircuitJson(exportCircuitJson(imported.circuit))]
  /\ UNCHANGED jsonRest

MaxJsonSize == 2
NextJson ==
  \/ JsPut(MaxJsonSize)
  \/ JsSetRoute
  \/ JsLoosen
  \/ RoundTrip
SpecJson == InitJson /\ [][NextJson]_vars

(* SpecLabels: the indices of labelled, unlabelled and generated resistors and
   ammeters. AssignIndices is a call of assignResistorIndices and of
   assignAmmeterIndices alone. *)
AssignIndices(includes) ==
  /\ pc = "tree"
  /\ pc' = "labels"
  /\ \E j \in 1..Len(includes) :
       facade' = [resistors |-> assignResistorIndices(circuit, includes[j]),
                  ammeters |-> assignAmmeterIndices(circuit),
                  includeGenerated |-> includes[j]]
  /\ UNCHANGED facadeRest

Rn1 == [kind |-> "resistor", val |-> Num(1), both |-> FALSE, name |-> <<"r", "_", "{", "1", "}">>]
Rn2 == [kind |-> "resistor", val |-> Num(1), both |-> FALSE, name |-> <<" ", "R", " ", "2", " ">>]
Rn0 == [kind |-> "resistor", val |-> Num(1), both |-> FALSE, name |-> <<"R", "0">>]
Rg1 == [kind |-> "resistor", val |-> Num(1), both |-> FALSE, name |-> <<"R", "1">>, generated |-> TRUE]
An1 == [kind |-> "ammeter", val |-> Num(0), both |-> FALSE, name |-> <<"A", "1">>]
Ax == [kind |-> "ammeter", val |-> Num(0), both |-> FALSE, name |-> <<"R", "1">>]
MaxLabelSize == 3
NextLabels ==
  \/ PutAtomAt(<<R1, Rn1, Rn2, Rn0, Rg1, Amm, An1, Ax>>, MaxLabelSize)
  \/ PutBlockAt(MaxLabelSize)
  \/ AssignIndices(<<FALSE, TRUE>>)
  \/ SolveCircuit(<<Num(6)>>, <<FALSE, TRUE>>)
SpecLabels == InitTree /\ [][NextLabels]_vars

----------------------------------------------------------------------------
(* Vocabulary of the claims about the reducer *)

(* the call returned from inside its rewrite loop *)
ReturnedFromLoop == pc \in {"done", "solved"} /\ edges # <<>>

EndPair(e) == {e.from, e.to}
SingleTerminalEdge == Len(edges) = 1 /\ EndPair(edges[1]) = {plusN, minusN}

(* the rewrite rules, stated on the graph: two edges on the same pair of
   super-nodes; a super-node other than a terminal with exactly two edges that
   lead to two different neighbours *)
HasParallelPair(es) == \E i, j \in 1..Len(es) : i # j /\ EndPair(es[i]) = EndPair(es[j])
EdgesAt(es, n) == {i \in 1..Len(es) : n \in EndPair(es[i])}
Neighbours(es, n) == UNION {EndPair(es[i]) \ {n} : i \in EdgesAt(es, n)}
IsSeriesNode(es, n) ==
  /\ n \notin {plusN, minusN}
  /\ Cardinality(EdgesAt(es, n)) = 2
  /\ Cardinality(Neighbours(es, n)) = 2
NoRuleApplies(es) == ~HasParallelPair(es) /\ ~\E n \in 0..(nodeCount - 1) : IsSeriesNode(es, n)

(* the items of the tree built from an expression *)
TreeItemsOf(expr) ==
  LET t == exprToTreeNode(expr, 0).node
  IN IF t.kind = "series" THEN t.items ELSE <<t>>

(* a tree with its generated identifiers (series, parallel, branch) erased *)
RECURSIVE EraseIds(_)
EraseIds(items) ==
  [i \in 1..Len(items) |->
     IF items[i].kind \in AtomKinds THEN items[i]
     ELSE IF items[i].kind = "series"
       THEN [kind |-> "series", items |-> EraseIds(items[i].items)]
     ELSE [kind |-> "parallel",
           branches |-> [b \in 1..Len(items[i].branches) |-> EraseIds(items[i].branches[b].items)]]]

(* C1 as claimed: a tree exactly when one edge on {+,-} is left, that edge's
   expression read from + to -; every other return from the loop is the error
   "not reducible by series/parallel". *)
C1_AsClaimed ==
  ReturnedFromLoop =>
    /\ result.ok <=> SingleTerminalEdge
    /\ ~SingleTerminalEdge => result = Fail(ErrNotReducible)

(* C1, amended: the call returns a tree exactly when the rewriting ends with a
   single edge on {+,-}, and the tree is that edge's expression read from + to -;
   a single edge that does not join the terminals gives the error "does not
   connect + and - terminals"; otherwise more than one edge is left, no rule
   applies to them, and the error is "not reducible by series/parallel". *)
C1_Termination ==
  ReturnedFromLoop =>
    /\ result.ok <=> SingleTerminalEdge
    /\ SingleTerminalEdge =>
         EraseIds(result.circuit.items) =
           EraseIds(TreeItemsOf(IF edges[1].from = plusN THEN edges[1].expr
                                ELSE reverseExpr(edges[1].expr)))
    /\ (Len(edges) = 1 /\ ~SingleTerminalEdge) => result = Fail(ErrNotConnected)
    /\ Len(edges) > 1 => (NoRuleApplies(edges) /\ result = Fail(ErrNotReducible))

C1_Witness ==
  /\ ReturnedFromLoop /\ guard >= 1
  /\ Len(edges) = 1 /\ ~SingleTerminalEdge
  /\ result = Fail(ErrNotConnected)

(* C2: in every pass of the loop a series merge happens only when no two edges
   share an endpoint pair; a parallel merge takes the whole group of the
   earliest edge that has a parallel partner; a series merge removes the
   eligible super-node of lowest index, never a terminal. *)
RemovedBy(es, es2) == {i \in 1..Len(es) : \A k \in 1..Len(es2) : es2[k].id # es[i].id}
KeptBy(es, es2) == SelectSeq(es, LAMBDA e : \E k \in 1..Len(es2) : es2[k].id = e.id)
FirstPartnered(es) == Min({i \in 1..Len(es) : \E j \in 1..Len(es) : j # i /\ EndPair(es[j]) = EndPair(es[i])})
RewriteOrder(es, es2) ==
  LET new == es2[Len(es2)]
      removed == RemovedBy(es, es2)
  IN /\ es2 = Append(KeptBy(es, es2), new)
     /\ new.id.pfx \in {"eP", "eS"}
     /\ new.id.pfx = "eS" =>
          /\ ~HasParallelPair(es)
          /\ \E n \in 0..(nodeCount - 1) :
               /\ IsSeriesNode(es, n)
               /\ \A m \in 0..(n - 1) : ~IsSeriesNode(es, m)
               /\ removed = EdgesAt(es, n)
               /\ EndPair(new) = Neighbours(es, n)
     /\ new.id.pfx = "eP" =>
          /\ HasParallelPair(es)
          /\ removed = {i \in 1..Len(es) : EndPair(es[i]) = EndPair(es[FirstPartnered(es)])}
          /\ EndPair(new) = EndPair(es[FirstPartnered(es)])
C2_RewriteOrder == [][(pc = "loop" /\ pc' = "loop") => RewriteOrder(edges, edges')]_vars

(* a series merge has just been made while a second super-node was eligible *)
C2_Witness ==
  /\ pc = "loop" /\ guard >= 1
  /\ edges[Len(edges)].id.pfx = "eS"
  /\ ~HasParallelPair(edges)
  /\ \E n \in 0..(nodeCount - 1) : IsSeriesNode(edges, n)

----------------------------------------------------------------------------
(* Reference notions on the argument, stated without the program's data *)

PosOf(id) == CHOOSE i \in 1..Len(nodeCircuit.nodes) : nodeCircuit.nodes[i] = id
WireLinks ==
  {<<PosOf(nodeCircuit.edges[k].a), PosOf(nodeCircuit.edges[k].b)>> :
     k \in {i \in 1..Len(nodeCircuit.edges) : nodeCircuit.edges[i].kind = "wire"}}
RECURSIVE WireReach(_)
WireReach(S) ==
  LET T == S \cup {j \in 1..Len(nodeCircuit.nodes) :
                     \E i \in S : <<i, j>> \in WireLinks \/ <<j, i>> \in WireLinks}
  IN IF T = S THEN S ELSE WireReach(T)
(* vertices (1-based positions) i and j are joined by a path of wires *)
WireConnected(i, j) == j \in WireReach({i})

(* the non-wire edges whose endpoints are not joined by wires *)
SurvivingEdges ==
  SelectSeq(nodeCircuit.edges,
            LAMBDA e : e.kind # "wire" /\ ~WireConnected(PosOf(e.a), PosOf(e.b)))
EdgeById(id) == CHOOSE e \in {nodeCircuit.edges[i] : i \in 1..Len(nodeCircuit.edges)} : e.id = id

(* the atoms of a tree, in order *)
RECURSIVE AtomsOf(_)
AtomsOf(items) ==
  SeqConcat([i \in 1..Len(items) |->
     IF items[i].kind \in AtomKinds THEN <<items[i]>>
     ELSE IF items[i].kind = "series" THEN AtomsOf(items[i].items)
     ELSE SeqConcat([b \in 1..Len(items[i].branches) |-> AtomsOf(items[i].branches[b].items)])])

(* The tree laid out as a graph: a series list is a chain through fresh nodes,
   the branches of a parallel block share its two ends. Gives the atoms with
   the ends they are crossed between, [atom, x, y], and the next fresh node. *)
RECURSIVE LayOut(_, _, _, _)
RECURSIVE LayOutBranches(_, _, _, _)
LayOutBranches(branches, x, y, fresh) ==
  IF branches = <<>> THEN [arcs |-> {}, fresh |-> fresh]
  ELSE LET h == LayOut(Head(branches).items, x, y, fresh)
           t == LayOutBranches(Tail(branches), x, y, h.fresh)
       IN [arcs |-> h.arcs \cup t.arcs, fresh |-> t.fresh]
LayOut(items, x, y, fresh) ==
  IF items = <<>> THEN [arcs |-> {}, fresh |-> fresh]
  ELSE LET last == Len(items) = 1
           mid == IF last THEN y ELSE fresh
           f1 == IF last THEN fresh ELSE fresh + 1
           it == Head(items)
           h == IF it.kind \in AtomKinds THEN [arcs |-> {[atom |-> it, x |-> x, y |-> mid]}, fresh |-> f1]
                ELSE IF it.kind = "series" THEN LayOut(it.items, x, mid, f1)
                ELSE LayOutBranches(it.branches, x, mid, f1)
           t == IF last THEN [arcs |-> {}, fresh |-> h.fresh] ELSE LayOut(Tail(items), mid, y, h.fresh)
       IN [arcs |-> h.arcs \cup t.arcs, fresh |-> t.fresh]

SuperOf(id) == oldToNew[PosOf(id)]

(* arc [atom, x, y] of the laid-out tree agrees, under the placement f of its
   nodes on super-nodes, with the edge it comes from: same kind; a resistor
   keeps its ohms; a source keeps its value when crossed from a to b and has
   it negated when crossed from b to a *)
ArcAgrees(arc, f) ==
  LET e == EdgeById(arc.atom.id)
  IN /\ arc.atom.kind = e.kind
     /\ {f[arc.x], f[arc.y]} = {SuperOf(e.a), SuperOf(e.b)}
     /\ e.kind \in {"resistor", "ammeter"} => arc.atom.val = e.val
     /\ e.kind \in SourceKinds =>
          \/ f[arc.x] = SuperOf(e.a) /\ f[arc.y] = SuperOf(e.b) /\ arc.atom.val = e.val
          \/ f[arc.x] = SuperOf(e.b) /\ f[arc.y] = SuperOf(e.a) /\ arc.atom.val = neg(e.val)

(* C3: on success the atoms of the tree are exactly the surviving non-wire
   edges, each once, with its id, kind and ohms; laid out from + to -, the tree
   is the contracted graph itself: every atom is crossed between the super-nodes
   of its edge, a source with its value when crossed from a to b and negated
   when crossed from b to a, the series runs in the order met from + to -. *)
C3_AtomsAndOrientation ==
  (ReturnedFromLoop /\ result.ok) =>
    LET atoms == AtomsOf(result.circuit.items)
        lay == LayOut(result.circuit.items, 0, 1, 2)
    IN /\ Len(atoms) = Len(SurvivingEdges)
       /\ {atoms[i].id : i \in 1..Len(atoms)} = {SurvivingEdges[i].id : i \in 1..Len(SurvivingEdges)}
       /\ \E f \in [0..(lay.fresh - 1) -> 0..(nodeCount - 1)] :
            /\ f[0] = plusN /\ f[1] = minusN
            /\ \A m, n \in DOMAIN f : m # n => f[m] # f[n]
            /\ \A arc \in lay.arcs : ArcAgrees(arc, f)

(* a tree was returned that holds a series run, a reversed source and a parallel block *)
C3_Witness ==
  /\ ReturnedFromLoop /\ result.ok
  /\ Len(result.circuit.items) >= 2
  /\ \E i \in 1..Len(result.circuit.items) : result.circuit.items[i].kind = "parallel"
  /\ \E i \in 1..Len(AtomsOf(result.circuit.items)) :
       LET at == AtomsOf(result.circuit.items)[i]
       IN at.kind = "vsource" /\ at.val = neg(EdgeById(at.id).val)

(* C4: on success every item list of the tree is non-empty and holds only atoms
   and parallel blocks, every parallel block has at least two branches, and no
   atom comes from a wire. *)
RECURSIVE WellFormedItems(_)
WellFormedItems(items) ==
  /\ Len(items) >= 1
  /\ \A i \in 1..Len(items) :
       /\ items[i].kind \in AtomKinds \cup {"parallel"}
       /\ items[i].kind = "parallel" =>
            /\ Len(items[i].branches) >= 2
            /\ \A b \in 1..Len(items[i].branches) : WellFormedItems(items[i].branches[b].items)
C4_TreeShape ==
  (ReturnedFromLoop /\ result.ok) =>
    /\ WellFormedItems(result.circuit.items)
    /\ \A i \in 1..Len(AtomsOf(result.circuit.items)) :
         EdgeById(AtomsOf(result.circuit.items)[i].id).kind # "wire"

(* a tree with a parallel block one of whose branches is a series run *)
C4_Witness ==
  /\ ReturnedFromLoop /\ result.ok
  /\ \E i \in 1..Len(result.circuit.items) :
       /\ result.circuit.items[i].kind = "parallel"
       /\ \E b \in 1..Len(result.circuit.items[i].branches) :
            Len(result.circuit.items[i].branches[b].items) >= 2

----------------------------------------------------------------------------
(* Wire contraction *)

Vertices == 1..Len(nodeCircuit.nodes)
Components == {WireReach({i}) : i \in Vertices}
FirstOf(i) == Min(WireReach({i}))

(* o2n, count is the contraction of the argument: equal index exactly for
   wire-connected vertices, indices 0..count-1 with count the number of
   components, numbered in the order of the components' first vertices *)
ContractionOf(o2n, count) ==
  /\ Len(o2n) = Len(nodeCircuit.nodes)
  /\ \A i, j \in Vertices : (o2n[i] = o2n[j]) <=> WireConnected(i, j)
  /\ count = Cardinality(Components)
  /\ {o2n[i] : i \in Vertices} = 0..(count - 1)
  /\ \A i, j \in Vertices : FirstOf(i) < FirstOf(j) => o2n[i] < o2n[j]

(* C6: wire contraction, in the reducer and in the solver, gives two vertices
   the same super-node index if and only if a path of wires joins them; the
   indices are exactly 0..N-1, N the number of wire-connected components,
   numbered in the order in which each component's first vertex occurs. *)
C6_WireContraction ==
  /\ (pc # "edit" /\ plus # -1) => ContractionOf(oldToNew, nodeCount)
  /\ (pc = "solved" /\ Len(nodeCircuit.nodes) >= 2) => ContractionOf(solved.oldToNew, solved.nodeCount)

(* both calls contracted four vertices to two, the last vertex joining the
   first through a wire entered from the later vertex to the earlier *)
C6_Witness ==
  /\ pc = "solved"
  /\ Len(nodeCircuit.nodes) = 4
  /\ oldToNew = <<0, 1, 1, 0>>
  /\ solved.oldToNew = oldToNew /\ solved.nodeCount = 2
  /\ \E i \in 1..Len(nodeCircuit.edges) :
       nodeCircuit.edges[i].kind = "wire" /\ PosOf(nodeCircuit.edges[i].a) > PosOf(nodeCircuit.edges[i].b)

----------------------------------------------------------------------------
(* Terminal resolution *)

Live(id) == id \in NodeIds
Vsources == {i \in 1..Len(nodeCircuit.edges) : nodeCircuit.edges[i].kind = "vsource"}
VsourceAt == IF Vsources = {} THEN 0 ELSE Min(Vsources)
PosPair(a, b) == <<PosOf(a) - 1, PosOf(b) - 1>>

(* C7 as stated: explicit references when both name existing, distinct
   vertices; in every other case the endpoints of the first vsource; without a
   vsource the vertices at positions 0 and 1. Kept to arguments with two
   vertices or more whose first vsource has two distinct endpoints. *)
C7_AsClaimed ==
  (/\ pc # "edit"
   /\ Len(nodeCircuit.nodes) >= 2
   /\ VsourceAt # 0 => nodeCircuit.edges[VsourceAt].a # nodeCircuit.edges[VsourceAt].b) =>
    <<plus, minus>> =
      IF Live(nodeCircuit.plusNodeId) /\ Live(nodeCircuit.minusNodeId)
           /\ nodeCircuit.plusNodeId # nodeCircuit.minusNodeId
        THEN PosPair(nodeCircuit.plusNodeId, nodeCircuit.minusNodeId)
      ELSE IF VsourceAt # 0
        THEN PosPair(nodeCircuit.edges[VsourceAt].a, nodeCircuit.edges[VsourceAt].b)
      ELSE <<0, 1>>

(* C7: the explicit references are used when both name existing vertices, and
   the call fails with 'terminals cannot be the same node' when they name the
   same one; when one is missing or dangling the terminals are the endpoints
   (a = +, b = -) of the first vsource in edge order, with the same failure
   when they coincide; without a vsource they are the vertices at positions 0
   and 1, and the call fails when there are fewer than two vertices. *)
C7_Terminals ==
  pc # "edit" =>
    LET same == plus = -1 /\ minus = -1 /\ result = Fail(ErrSameTerminal)
    IN IF Live(nodeCircuit.plusNodeId) /\ Live(nodeCircuit.minusNodeId)
         THEN IF nodeCircuit.plusNodeId # nodeCircuit.minusNodeId
                THEN <<plus, minus>> = PosPair(nodeCircuit.plusNodeId, nodeCircuit.minusNodeId)
              ELSE same
       ELSE IF VsourceAt # 0
         THEN IF nodeCircuit.edges[VsourceAt].a # nodeCircuit.edges[VsourceAt].b
                THEN <<plus, minus>> = PosPair(nodeCircuit.edges[VsourceAt].a, nodeCircuit.edges[VsourceAt].b)
              ELSE same
       ELSE IF Len(nodeCircuit.nodes) >= 2 THEN <<plus, minus>> = <<0, 1>>
       ELSE plus = -1 /\ minus = -1 /\ result = Fail(ErrNeedNodes)

(* both references name the same vertex while a vsource with two distinct
   endpoints exists: the call failed *)
C7_Witness ==
  /\ pc = "done"
  /\ Live(nodeCircuit.plusNodeId) /\ nodeCircuit.plusNodeId = nodeCircuit.minusNodeId
  /\ VsourceAt # 0 /\ nodeCircuit.edges[VsourceAt].a # nodeCircuit.edges[VsourceAt].b
  /\ result = Fail(ErrSameTerminal)

----------------------------------------------------------------------------
(* Shorted edges and element values *)

NonWire == {i \in 1..Len(nodeCircuit.edges) : nodeCircuit.edges[i].kind # "wire"}
Shorted(i) == WireConnected(PosOf(nodeCircuit.edges[i].a), PosOf(nodeCircuit.edges[i].b))
ValidValue(e) ==
  /\ e.kind = "resistor" => isFinite(e.val) /\ e.val.v > 0
  /\ e.kind \in SourceKinds => isFinite(e.val)
(* a voltage source with volts # 0 whose endpoints are joined by wires *)
ShortedLive(i) == /\ i \in NonWire /\ Shorted(i)
                  /\ nodeCircuit.edges[i].kind = "vsource" /\ nodeCircuit.edges[i].val # Num(0)
IdsOf(es) == [i \in 1..Len(es) |-> es[i].id]
solverId(e) == IF e.kind = "ammeter" THEN ammeterId(e.id) ELSE e.id

(* the reducer came to its edge loop: terminals resolved and not joined by wires *)
ReducerAtEdges == pc # "edit" /\ plus # -1 /\ ~WireConnected(plus + 1, minus + 1)
(* the solver came to its element loop *)
SolverAtEdges == pc = "solved" /\ Len(nodeCircuit.nodes) >= 2 /\ Cardinality(Components) >= 2

(* what is claimed of a call that builds its element list *)
DropsShorted(failure, listed, list, shortedError, emptyError) ==
  IF \E i \in NonWire : ShortedLive(i) THEN failure = shortedError
  ELSE IF SurvivingEdges = <<>> THEN failure = emptyError
  ELSE listed => list = [i \in 1..Len(SurvivingEdges) |-> solverId(SurvivingEdges[i])]

ReducerDrops ==
  ReducerAtEdges =>
    DropsShorted(IF result.ok THEN "" ELSE result.error,
                 pc = "loop" /\ guard = 0,
                 [i \in 1..Len(edges) |-> solverId(EdgeById(edges[i].id))],
                 ErrVsourceShorted, ErrNoComponents)
SolverDrops ==
  SolverAtEdges =>
    DropsShorted(IF solved.ok THEN "" ELSE solved.error,
                 solved.stage \in {"sources", "solve"},
                 IF solved.stage \in {"sources", "solve"} THEN IdsOf(solved.elements) ELSE <<>>,
                 ErrVsourceShorted, ErrNoElements)

(* C8 as stated, kept to arguments whose edges between different super-nodes
   all carry valid values: both calls drop every shorted non-wire edge, fail
   for a shorted voltage source with volts # 0, and fail with their 'no
   components' error when nothing is left. *)
C8_AsClaimed ==
  (\A i \in NonWire : Shorted(i) \/ ValidValue(nodeCircuit.edges[i])) =>
    ReducerDrops /\ SolverDrops

(* C8: in the reducer every shorted non-wire edge is dropped, a shorted
   voltage source with volts # 0 fails the call with 'voltage source is
   shorted by wire', and the call fails with 'no components' when nothing is
   left. The solver does the same when every non-wire edge carries a valid
   value; it checks an edge's value before it looks at its endpoints, so a
   resistor or source with an invalid value fails the call even when shorted. *)
C8_ShortedEdges ==
  /\ ReducerDrops
  /\ (\A i \in NonWire : ValidValue(nodeCircuit.edges[i])) => SolverDrops
  /\ (SolverAtEdges /\ \E i \in NonWire : ~ValidValue(nodeCircuit.edges[i])) =>
       /\ ~solved.ok
       /\ solved.error \in {ErrInvalidOhms, ErrInvalidVolts, ErrInvalidAmps, ErrVsourceShorted}
       /\ (~\E i \in NonWire : ShortedLive(i)) => solved.error # ErrVsourceShorted

(* both calls dropped a shorted resistor and a shorted source of 0 volts and kept the rest *)
C8_Witness ==
  /\ pc = "solved" /\ ReducerAtEdges /\ SolverAtEdges
  /\ \E i, j \in NonWire :
       /\ Shorted(i) /\ nodeCircuit.edges[i].kind = "resistor" /\ ValidValue(nodeCircuit.edges[i])
       /\ ~Shorted(j)
  /\ result.ok
  /\ solved.stage \in {"sources", "solve"}
  /\ Len(solved.elements) < Cardinality(NonWire)

(* C9 as stated: an argument with a resistor whose ohms is non-finite or
   <= 0, or a source whose value is non-finite, makes both calls fail. *)
C9_AsClaimed ==
  (pc = "solved" /\ \E i \in NonWire : ~ValidValue(nodeCircuit.edges[i])) =>
    ~result.ok /\ ~solved.ok

----------------------------------------------------------------------------
(* Tree -> graph -> tree *)

Root == seriesItemsForCircuit(circuit)
RangeOf(seq) == {seq[i] : i \in 1..Len(seq)}
AtomSet(items) == RangeOf(AtomsOf(items))
HasSource == \E at \in AtomSet(Root) : at.kind \in SourceKinds
(* the item lists of a tree that are empty *)
RECURSIVE EmptyLists(_)
RECURSIVE EmptyListsIn(_)
EmptyLists(items) == IF items = <<>> THEN 1 ELSE EmptyListsIn(items)
EmptyListsIn(items) ==
  IF items = <<>> THEN 0
  ELSE EmptyListsIn(Tail(items)) +
       (IF Head(items).kind = "series" THEN EmptyLists(Head(items).items)
        ELSE IF Head(items).kind = "parallel"
          THEN EmptyLists(Head(items).branches[1].items) + EmptyLists(Head(items).branches[2].items)
        ELSE 0)
(* the spec's invariants of a tree: no series block directly in a list *)
Flattened == \A i \in 1..Len(Root) : Root[i].kind # "series"
UpToSign(at) == IF at.kind \in SourceKinds THEN {at, [at EXCEPT !.val = neg(@)]} ELSE {at}

(* C5 as stated: for every tree (no series block directly in a list, two
   branches in every parallel block) the conversion to a node circuit and the
   reducer both succeed, and the atoms of the tree returned are the atoms of
   the tree given, sources up to negation, none lost, added or duplicated. *)
C5_AsClaimed ==
  (pc = "done" /\ converted # NoResult /\ Flattened) =>
    /\ converted.ok /\ result.ok
    /\ Len(AtomsOf(result.circuit.items)) = Len(AtomsOf(Root))
    /\ \A at \in AtomSet(result.circuit.items) : UpToSign(at) \cap AtomSet(Root) # {}
    /\ \A at \in AtomSet(Root) : UpToSign(at) \cap AtomSet(result.circuit.items) # {}

(* C5: seriesParallelCircuitToNodeCircuit refuses exactly the trees that hold a
   source atom. For every other tree the reducer succeeds on the node circuit
   it returns, and the atoms of the tree returned are the atoms of the tree
   given, each once with its id, kind and ohms, together with one generated
   ammeter (id prefix eA) for every empty item list of the tree given. *)
C5_RoundTrip ==
  /\ (converted # NoResult) =>
       /\ converted.ok <=> ~HasSource
       /\ ~converted.ok => (converted = Fail(ErrHasSources) /\ nodeCircuit = EmptyNodeCircuit)
  /\ (pc = "done" /\ converted # NoResult /\ ~HasSource) =>
       /\ result.ok
       /\ LET back == AtomsOf(result.circuit.items)
              filler == {i \in 1..Len(back) : back[i].id.pfx = "eA"}
          IN /\ Len(back) = Len(AtomsOf(Root)) + EmptyLists(Root)
             /\ Cardinality(filler) = EmptyLists(Root)
             /\ \A i \in filler : back[i].kind = "ammeter"
             /\ {back[i] : i \in (1..Len(back)) \ filler} = AtomSet(Root)
             /\ Cardinality(AtomSet(result.circuit.items)) = Len(back)

(* a U-routed tree with a parallel block, an empty branch and two atoms came back *)
C5_Witness ==
  /\ pc = "done" /\ result.ok
  /\ circuit.route = "u"
  /\ EmptyLists(Root) >= 1
  /\ Len(AtomsOf(Root)) >= 2
  /\ \E i \in 1..Len(Root) : Root[i].kind = "parallel"

----------------------------------------------------------------------------
(* Two calls *)

(* the identifiers a tree's circuit, series, parallel blocks and branches carry *)
RECURSIVE GeneratedIds(_)
GeneratedIds(items) ==
  IF items = <<>> THEN {}
  ELSE GeneratedIds(Tail(items)) \cup
       (IF Head(items).kind = "series" THEN {Head(items).id} \cup GeneratedIds(Head(items).items)
        ELSE IF Head(items).kind = "parallel"
          THEN {Head(items).id}
               \cup UNION {{Head(items).branches[b].id} \cup GeneratedIds(Head(items).branches[b].items) :
                             b \in 1..Len(Head(items).branches)}
        ELSE {})

(* a trace with the identifiers of its generated resistors (prefix req) left out *)
RECURSIVE EraseReq(_)
EraseReq(items) ==
  [i \in 1..Len(items) |->
     IF items[i].kind \in AtomKinds
       THEN IF items[i].id.pfx = "req" THEN [items[i] EXCEPT !.id = Null] ELSE items[i]
     ELSE IF items[i].kind = "series" THEN [items[i] EXCEPT !.items = EraseReq(@)]
     ELSE [items[i] EXCEPT !.branches = [b \in 1..Len(@) |-> [@[b] EXCEPT !.items = EraseReq(@)]]]]
EraseReqTrace(t) ==
  [t EXCEPT !.levels = [l \in 1..Len(@) |-> [@[l] EXCEPT !.circuit.items = EraseReq(@)]]]
(* the identifiers of the generated resistors of a trace *)
ReqIds(t) ==
  UNION {{at.id : at \in {a \in AtomSet(t.levels[l].circuit.items) : a.id.pfx = "req"}} :
           l \in 1..Len(t.levels)}

(* C10 as stated: two calls of the reducer on the same node circuit return
   equal results, the identifiers they create included, and two calls of
   computeReductionLevels on the same tree return equal traces, the
   identifiers of the generated resistors included. *)
C10_AsClaimed ==
  /\ pc \in {"twice", "traced", "tracedTwice"} => again = result
  /\ pc = "tracedTwice" => traceAgain = trace

(* C10: two calls of the reducer on the same node circuit return the same
   error, or two trees that are equal once the identifiers the calls create
   (of the circuit, the parallel blocks and their branches) are left out; two
   calls of computeReductionLevels on the same tree return traces that are
   equal once the identifiers of the generated resistors are left out. The
   identifiers created by one call are never those of the other. *)
C10_EqualUpToIds ==
  /\ pc \in {"twice", "traced", "tracedTwice"} =>
       IF result.ok
         THEN /\ again.ok
              /\ EraseIds(again.circuit.items) = EraseIds(result.circuit.items)
              /\ again.circuit.route = result.circuit.route
              /\ again.circuit.id # result.circuit.id
              /\ GeneratedIds(again.circuit.items) \cap GeneratedIds(result.circuit.items) = {}
       ELSE again = result
  /\ pc = "tracedTwice" =>
       /\ EraseReqTrace(traceAgain) = EraseReqTrace(trace)
       /\ ReqIds(traceAgain) \cap ReqIds(trace) = {}

(* two trees with a parallel block were returned, and two traces of three levels *)
C10_Witness ==
  /\ pc = "tracedTwice" /\ result.ok /\ again.ok
  /\ \E i \in 1..Len(result.circuit.items) : result.circuit.items[i].kind = "parallel"
  /\ Len(trace.levels) = 3 /\ Len(traceAgain.levels) = 3

----------------------------------------------------------------------------
(* Vocabulary of the claims about the reduction trace *)

Traced == pc = "levels"
LevelAt(i) == trace.levels[i + 1]
LastLevel == Len(trace.levels) - 1
IsGenerated(node) == node.kind = "resistor" /\ "generated" \in DOMAIN node /\ node.generated
CandidatesOf(c) == scanCandidates(c).candidates
DepthsOf(cands) == {cands[i].depth : i \in 1..Len(cands)}
Deepest(cands) == CHOOSE d \in DepthsOf(cands) : \A e \in DepthsOf(cands) : e <= d
DeepestOf(cands) == SelectSeq(cands, LAMBDA cd : cd.depth = Deepest(cands))
TargetList(targets, listKey) ==
  \E i \in 1..Len(targets) : targets[i].type = "series_list" /\ targets[i].listKey = listKey
TargetBlock(targets, node) ==
  \E i \in 1..Len(targets) :
    targets[i].type \in {"series_block", "parallel_block"} /\ targets[i].node.id = node.id

(* new is old with every target list and target block replaced by one
   generated resistor and everything else as it was *)
RECURSIVE CollapsedList(_, _, _, _)
RECURSIVE CollapsedNode(_, _, _)
CollapsedList(targets, listKey, old, new) ==
  IF TargetList(targets, listKey) THEN Len(new) = 1 /\ IsGenerated(new[1])
  ELSE /\ Len(new) = Len(old)
       /\ \A i \in 1..Len(old) : CollapsedNode(targets, old[i], new[i])
CollapsedNode(targets, old, new) ==
  IF old.kind \in {"series", "parallel"} /\ TargetBlock(targets, old) THEN IsGenerated(new)
  ELSE IF old.kind = "series"
    THEN /\ new.kind = "series" /\ new.id = old.id
         /\ CollapsedList(targets, listKeyForSeriesBlock(old.id), old.items, new.items)
  ELSE IF old.kind = "parallel"
    THEN /\ new.kind = "parallel" /\ new.id = old.id
         /\ Len(new.branches) = Len(old.branches)
         /\ \A b \in 1..Len(old.branches) :
              /\ new.branches[b].id = old.branches[b].id
              /\ CollapsedList(targets, listKeyForBranch(old.id, old.branches[b].id),
                               old.branches[b].items, new.branches[b].items)
  ELSE new = old
CollapsedCircuit(targets, old, new) ==
  /\ new.id = old.id
  /\ IF old.route = "u"
       THEN IF \E i \in 1..Len(targets) : targets[i].type = "u_root"
              THEN new.route = "straight" /\ Len(new.items) = 1 /\ IsGenerated(new.items[1])
            ELSE /\ new.route = "u"
                 /\ CollapsedList(targets, listKeyRoot("root:top"), old.top, new.top)
                 /\ CollapsedList(targets, listKeyRoot("root:right"), old.right, new.right)
                 /\ CollapsedList(targets, listKeyRoot("root:bottom"), old.bottom, new.bottom)
     ELSE new.route = "straight" /\ CollapsedList(targets, listKeyRoot("root"), old.items, new.items)

(* level is the tree before with its deepest candidates, and nothing else, collapsed *)
DeepestCollapsed(before, level) ==
  LET cands == CandidatesOf(before)
  IN /\ cands # <<>>
     /\ \A r \in 1..Len(level.reductions) : level.reductions[r].depth = Deepest(cands)
     /\ Len(level.reductions) = Len(DeepestOf(cands))
     /\ CollapsedCircuit(DeepestOf(cands), before, level.circuit)

(* C11: in the trace of computeReductionLevels level 0 holds the tree given,
   unchanged and without reductions; the level indices count up from 0; every
   level i >= 1 has one reduction for each candidate of greatest depth of the
   tree of level i-1, all of that depth, and its tree is the tree of level i-1
   with exactly those candidates replaced by generated resistors. *)
C11_DeepestFirst ==
  Traced =>
    /\ LevelAt(0) = [index |-> 0, circuit |-> circuit, reductions |-> <<>>]
    /\ \A i \in 0..LastLevel : LevelAt(i).index = i
    /\ \A i \in 1..LastLevel : DeepestCollapsed(LevelAt(i - 1).circuit, LevelAt(i))

(* a trace of at least two reduction levels from a tree whose candidates lie
   at two depths *)
C11_Witness ==
  /\ Traced /\ LastLevel >= 2
  /\ Cardinality(DepthsOf(CandidatesOf(circuit))) >= 2

(* a tree the scan finds nothing in: no short and no candidate *)
Irreducible(c) == scanCandidates(c).error = "" /\ CandidatesOf(c) = <<>>
LastTree == LevelAt(LastLevel).circuit
LimitReached == ~trace.ok /\ trace.error = ErrLimit

(* C12 as claimed: when no short is met, the call returns without error if and
   only if a tree with no reducible subtree is reached after at most maxLevels
   reduction levels, and 'Reduction limit reached.' only when a reducible
   subtree remains after maxLevels levels. *)
C12_AsClaimed ==
  Traced /\ (trace.ok \/ LimitReached) =>
    /\ trace.ok <=> (LastLevel <= trace.maxLevels /\ Irreducible(LastTree))
    /\ LimitReached => CandidatesOf(LastTree) # <<>>

(* C12, amended: the call makes at most maxLevels levels. It returns without
   error exactly when fewer than maxLevels levels were made and the last tree
   has no short and no candidate; it returns 'Reduction limit reached.'
   exactly when maxLevels levels were made, whatever the last tree holds; with
   any other error fewer than maxLevels levels were made and the last tree
   holds a short or a candidate. *)
C12_Ceiling ==
  Traced =>
    /\ LastLevel <= trace.maxLevels
    /\ trace.ok <=> (LastLevel < trace.maxLevels /\ Irreducible(LastTree))
    /\ LimitReached <=> LastLevel = trace.maxLevels
    /\ ~trace.ok /\ ~LimitReached => ~Irreducible(LastTree)

(* the limit was reached with a tree that holds nothing left to reduce *)
C12_Witness ==
  /\ Traced /\ LimitReached
  /\ LastLevel = 2
  /\ Irreducible(LastTree)

(* the lists of a tree, and a parallel block of at least two branches one of
   which holds ammeters only *)
RootLists(c) == IF c.route = "u" THEN <<c.top, c.right, c.bottom>> ELSE <<c.items>>
AmmeterOnly(items) == items # <<>> /\ \A i \in 1..Len(items) : items[i].kind = "ammeter"
RECURSIVE HasAmmeterBranch(_)
HasAmmeterBranch(items) ==
  \E i \in 1..Len(items) :
    \/ /\ items[i].kind = "series"
       /\ HasAmmeterBranch(items[i].items)
    \/ /\ items[i].kind = "parallel"
       /\ \/ /\ Len(items[i].branches) >= 2
             /\ \E b \in 1..Len(items[i].branches) : AmmeterOnly(items[i].branches[b].items)
          \/ \E b \in 1..Len(items[i].branches) : HasAmmeterBranch(items[i].branches[b].items)

(* C13 as claimed: for a tree that holds a parallel block of at least two
   branches with an ammeter-only branch, computeReductionLevels returns an
   error and its levels are level 0 alone, wherever the branch stands and
   whatever the other branches hold. *)
C13_AsClaimed ==
  Traced /\ (\E l \in 1..Len(RootLists(circuit)) : HasAmmeterBranch(RootLists(circuit)[l])) =>
    ~trace.ok /\ LastLevel = 0

(* the pass about to run is the call of reduceOneLevel for level guard, and it fails *)
FailsNow ==
  /\ pc = "level" /\ guard <= trace.maxLevels
  /\ ~reduceOneLevel(LastTree, guard, idCtr).ok

(* C14: when reduceOneLevel fails at level i the call returns, at that pass,
   its error with the levels 0..i-1 made before, each as it was made; a level
   once made is not changed by a later pass, no record is made for the failing
   level, and nothing runs after the return. *)
C14_PartialLevels ==
  [][/\ FailsNow =>
          /\ pc' = "levels"
          /\ ~trace'.ok /\ trace'.error = reduceOneLevel(LastTree, guard, idCtr).error
          /\ Len(trace'.levels) = guard
          /\ trace'.levels = trace.levels
     /\ pc = "level" =>
          /\ Len(trace'.levels) >= Len(trace.levels)
          /\ \A k \in 1..Len(trace.levels) : trace'.levels[k] = trace.levels[k]
          /\ \A k \in 1..Len(trace'.levels) : trace'.levels[k].index = k - 1
     /\ pc = "levels" => pc' = "levels" /\ trace' = trace]_vars

(* the call returned a short found at level 2 or later, with the levels made before it *)
C14_Witness ==
  /\ Traced /\ ~trace.ok /\ ~LimitReached
  /\ trace.error \in {ErrScanShortBranch, ErrShortSeries}
  /\ LastLevel >= 1 /\ guard = LastLevel + 1

(* the sum of a sequence of numbers *)
RECURSIVE SumSeq(_)
SumSeq(xs) == IF xs = <<>> THEN Num(0) ELSE plusNum(Head(xs), SumSeq(Tail(xs)))
SeriesKinds == {"series_list", "series_block"}
(* the resistors of a level's tree that carry the name of a reduction *)
NamedIn(level, eqName) ==
  {at \in AtomSet(seriesItemsForCircuit(level.circuit)) : IsGenerated(at) /\ at.name = eqName}
(* the atoms a series candidate sums *)
RunOf(cand) == IF cand.type = "series_block" THEN cand.node.items ELSE cand.items
OhmsOfRun(items) == [i \in 1..Len(items) |-> IF items[i].kind = "ammeter" THEN Num(0) ELSE items[i].val]
(* a series candidate of greatest depth sums to 0 ohms, in a tree without a scan error *)
ZeroSeriesTarget(c) ==
  /\ scanCandidates(c).error = ""
  /\ \E k \in 1..Len(DeepestOf(CandidatesOf(c))) :
       /\ DeepestOf(CandidatesOf(c))[k].type # "parallel_block"
       /\ isZero(SumSeq(OhmsOfRun(RunOf(DeepestOf(CandidatesOf(c))[k]))))

SeriesSums(t) ==
  \A l \in 2..Len(t.levels) : \A r \in 1..Len(t.levels[l].reductions) :
    LET red == t.levels[l].reductions[r]
    IN red.kind \in SeriesKinds =>
         /\ red.resultOhms = SumSeq(red.inputsOhms)
         /\ ~isZero(red.resultOhms)
SeriesResistors(t) ==
  \A l \in 2..Len(t.levels) : \A r \in 1..Len(t.levels[l].reductions) :
    LET red == t.levels[l].reductions[r]
    IN red.kind \in SeriesKinds =>
         /\ NamedIn(t.levels[l], red.eqName) # {}
         /\ \A at \in NamedIn(t.levels[l], red.eqName) : at.val = red.resultOhms
ZeroSeriesFails ==
  pc = "level" /\ guard <= trace.maxLevels /\ ZeroSeriesTarget(LastTree) =>
    /\ pc' = "levels" /\ ~trace'.ok /\ trace'.error = ErrShortSeries
    /\ trace'.levels = trace.levels

(* C15 as claimed: every series reduction recorded in a level has resultOhms
   equal to the sum of its inputsOhms (an ammeter counting 0), the level's tree
   holds the generated resistor that replaces the run and it carries that
   value, and a series run that sums to 0 ohms gives a short-circuit error and
   no reduction. *)
C15_AsClaimed ==
  [][SeriesSums(trace') /\ SeriesResistors(trace') /\ ZeroSeriesFails]_vars

(* the resistors of the tree of level i, and those level i brought in *)
AtomsAt(i) == AtomSet(seriesItemsForCircuit(LevelAt(i).circuit))
NotAmong(atoms, ids) == {at \in atoms : at.id \notin ids}
Introduced(i) == NotAmong(AtomsAt(i), {old.id : old \in AtomsAt(i - 1)})
GeneratedInTrace == UNION {{at \in AtomsAt(i) : IsGenerated(at)} : i \in 0..LastLevel}
NamesApart(atoms) == \A x, y \in atoms : x.name = y.name => x.id = y.id

(* C16: every resistor that the tree of level i holds and the tree of level
   i-1 does not is marked generated and carries the name Req<i>.<k> of the
   k-th reduction of level i, the reductions of a level being named with k
   counting from 1; two generated resistors of one trace that bear the same
   name are the same resistor. *)
C16_EquivalentNames ==
  Traced =>
    /\ \A i \in 1..LastLevel :
         /\ \A k \in 1..Len(LevelAt(i).reductions) :
              LevelAt(i).reductions[k].eqName = <<"Req", i, ".", k>>
         /\ \A at \in Introduced(i) :
              /\ IsGenerated(at)
              /\ \E k \in 1..Len(LevelAt(i).reductions) : at.name = <<"Req", i, ".", k>>
    /\ NamesApart(GeneratedInTrace)

(* a trace of two reduction levels, one of them with two reductions whose
   resistors stand in its tree *)
C16_Witness ==
  /\ Traced /\ LastLevel >= 2
  /\ \E i \in 1..LastLevel : Cardinality(Introduced(i)) >= 2

----------------------------------------------------------------------------
(* Vocabulary of the claims about the MNA solver and the superposition drivers *)

MnaCalled == pc = "mna"
ValidCall == mna.nodeCount >= 2 /\ mna.groundNode >= 0 /\ mna.groundNode < mna.nodeCount
NonGround == {i \in 0..(mna.nodeCount - 1) : i # mna.groundNode}

(* C17: in a call of solveMna with node count N >= 2 and ground g in [0, N)
   the map of the nodes to the unknowns sends node i to i when i < g and to
   i - 1 when i > g, one to one from the N - 1 other nodes onto 0..N-2, and a
   successful result has N node voltages of which that of g is 0; a call with
   N < 2 or g outside [0, N) returns an error. *)
C17_GroundEliminated ==
  MnaCalled =>
    IF ValidCall
      THEN /\ \A i \in NonGround :
                nodeVar(i, mna.groundNode) = IF i < mna.groundNode THEN i ELSE i - 1
           /\ {nodeVar(i, mna.groundNode) : i \in NonGround} = 0..(mna.nodeCount - 2)
           /\ \A i, j \in NonGround :
                nodeVar(i, mna.groundNode) = nodeVar(j, mna.groundNode) => i = j
           /\ mna.res.ok =>
                /\ Len(mna.res.nodeVoltages) = mna.nodeCount
                /\ mna.res.nodeVoltages[mna.groundNode + 1] = Num(0)
      ELSE ~mna.res.ok /\ mna.res.error \in {ErrNodeCount, ErrGroundNode}

(* a successful call on three nodes with the ground in the middle, and a node
   below and a node above it at a potential other than 0 *)
C17_Witness ==
  /\ MnaCalled /\ ValidCall /\ mna.res.ok
  /\ mna.nodeCount = 3 /\ mna.groundNode = 1
  /\ mna.res.nodeVoltages[1] # Num(0) /\ mna.res.nodeVoltages[3] # Num(0)

Superposed == pc = "superposed"
(* the driver came to list its sources: it holds the elements of the graph *)
HasElements == Superposed /\ superposed.stage \in {"sources", "solve"}
IsIndependent(e) == (e.kind = "vsource" /\ e.independent) \/ e.kind = "isource"
ValueOf(e) == IF e.kind = "vsource" THEN e.volts ELSE e.amps
Silenced(e) == IF e.kind = "vsource" THEN [e EXCEPT !.volts = Num(0)] ELSE [e EXCEPT !.amps = Num(0)]
(* the positions of the independent sources among the elements, in order *)
LivePositions(elements) == SelectIdx(elements, LAMBDA i : IsIndependent(elements[i]))
(* the k-th source is the element at position at: same id, kind and value *)
SourceIs(source, e) ==
  /\ source.id = e.id /\ source.kind = e.kind /\ source.value = ValueOf(e)
  /\ source.unit = (IF e.kind = "vsource" THEN "V" ELSE "A")
(* the elements solved with the source at position at active *)
OnlyActive(solvedElements, elements, at) ==
  /\ Len(solvedElements) = Len(elements)
  /\ \A i \in 1..Len(elements) :
       solvedElements[i] = IF IsIndependent(elements[i]) /\ i # at THEN Silenced(elements[i]) ELSE elements[i]

(* C18: the drivers list every independent voltage source and every current
   source in the order of the elements and return one case per source in
   that order; the elements solved for a source are the elements of the
   graph with every other independent source set to 0 and nothing else
   changed. *)
C18_OneCasePerSource ==
  HasElements =>
    LET at == LivePositions(superposed.elements)
    IN /\ Len(superposed.calls) <= Len(at)
       /\ \A k \in 1..Len(superposed.calls) :
            /\ SourceIs(superposed.calls[k].source, superposed.elements[at[k]])
            /\ OnlyActive(superposed.calls[k].elements, superposed.elements, at[k])
       /\ superposed.res.ok =>
            /\ Len(superposed.res.sources) = Len(at)
            /\ Len(superposed.res.cases) = Len(at)
            /\ Len(superposed.calls) = Len(at)
            /\ \A k \in 1..Len(at) :
                 /\ SourceIs(superposed.res.sources[k], superposed.elements[at[k]])
                 /\ superposed.res.cases[k].source = superposed.res.sources[k]

(* a run that solved for a voltage source and for a current source, with a
   resistor and an ammeter among the elements *)
C18_Witness ==
  /\ HasElements /\ superposed.res.ok
  /\ \E j, k \in 1..Len(superposed.res.cases) :
       /\ superposed.res.cases[j].source.kind = "vsource"
       /\ superposed.res.cases[k].source.kind = "isource"
  /\ \E i, j \in 1..Len(superposed.elements) :
       /\ superposed.elements[i].kind = "resistor"
       /\ superposed.elements[j].kind = "vsource" /\ ~superposed.elements[j].independent

(* the text that names the element e in a message *)
NamedAs(e) == IF "name" \in DOMAIN e THEN e.name ELSE idText(e.id)
OnlyError(res) == DOMAIN res = {"ok", "error"} /\ ~res.ok
FailedCall == HasElements /\ superposed.calls # <<>> /\ ~superposed.calls[Len(superposed.calls)].ok
(* what solveMna answers to the elements with only the source at position at active *)
SolvedAlone(at) ==
  solveMna([i \in 1..Len(superposed.elements) |->
              IF IsIndependent(superposed.elements[i]) /\ i # at
                THEN Silenced(superposed.elements[i]) ELSE superposed.elements[i]],
           IF superposed.path = "tree" THEN superposed.graph.nodeCount ELSE superposed.nodeCount,
           IF superposed.path = "tree" THEN superposed.graph.minusNode ELSE superposed.ground)

(* the first of the sources, from the k-th on, whose solve fails; 0 when none does *)
RECURSIVE FirstFailing(_, _)
FirstFailing(at, k) ==
  IF k > Len(at) THEN 0
  ELSE IF ~SolvedAlone(at[k]).ok THEN k
  ELSE FirstFailing(at, k + 1)

(* C19: when the solve of a source fails the driver returns an error and
   nothing else, and the message names the first source in order whose solve
   fails, by its name or, without a name, by its id; when the elements hold
   no independent source the driver returns the 'No independent sources
   found' error and solves nothing. *)
C19_FirstFailureOnly ==
  HasElements =>
    LET at == LivePositions(superposed.elements)
    IN IF at = <<>>
         THEN superposed.res = Fail(ErrNoSources) /\ superposed.calls = <<>>
       ELSE Bind(FirstFailing(at, 1), LAMBDA first :
              IF first = 0 THEN superposed.res.ok
              ELSE /\ OnlyError(superposed.res)
                   /\ superposed.res.error =
                        "While solving with only source " \o NamedAs(superposed.elements[at[first]])
                          \o " active: " \o SolvedAlone(at[first]).error
                   /\ Len(superposed.calls) = first)

(* a run whose first source was solved and whose second source, one with no
   name, was not *)
C19_Witness ==
  /\ FailedCall
  /\ Len(superposed.calls) = 2
  /\ "name" \notin DOMAIN superposed.calls[2].source
  /\ OnlyError(superposed.res)

(* the super-node of the minus terminal the canonicalizer resolves for the
   argument: the explicit minusNodeId when both terminals are set, else the
   b end of the first voltage source, else vertex 1 *)
MinusResolved == resolveTerminals(nodeCircuit).ok
MinusSuperNode == superposed.oldToNew[resolveTerminals(nodeCircuit).minus + 1]
GroundsOfCalls == {superposed.calls[k].groundNode : k \in 1..Len(superposed.calls)}
TreeGrounded == (Superposed /\ superposed.path = "tree") => GroundsOfCalls \subseteq {superposed.graph.minusNode}
NodeGrounded ==
  (Superposed /\ superposed.path = "node" /\ superposed.calls # <<>> /\ MinusResolved) =>
    GroundsOfCalls = {MinusSuperNode}

(* C20: every solve the drivers issue has for ground the super-node of the
   minus terminal: the minus node of buildCircuitGraph on the tree path, the
   super-node of the resolved minus terminal on the node path. *)
C20_AsClaimed == TreeGrounded /\ NodeGrounded

----------------------------------------------------------------------------
(* Vocabulary of the claims about the facade *)

Solved == pc = "facade"
Supplied == facade.supply # NoSupply /\ isFinite(facade.supply) /\ greaterNum(facade.supply, Num(0))
TreeNodes == visitNodes(seriesItemsForCircuit(circuit))
Passive == \A i \in 1..Len(TreeNodes) : TreeNodes[i].kind \in {"resistor", "ammeter", "series", "parallel"}

(* the resistance of a list between its ends: the sum along a list, the
   reciprocal of the sum of the reciprocals across a parallel block, 0 as
   soon as one branch has none *)
RECURSIVE OhmsAlong(_)
RECURSIVE OhmsAcross(_, _, _)
OhmsAlong(items) ==
  IF items = <<>> THEN Num(0)
  ELSE LET n == Head(items)
           here == IF n.kind = "resistor" THEN n.val
                   ELSE IF n.kind = "series" THEN OhmsAlong(n.items)
                   ELSE IF n.kind = "parallel" THEN OhmsAcross(n.branches, 1, Num(0))
                   ELSE Num(0)
       IN plusNum(here, OhmsAlong(Tail(items)))
OhmsAcross(branches, i, siemens) ==
  IF i > Len(branches) THEN invNum(siemens)
  ELSE LET r == OhmsAlong(branches[i].items)
       IN IF isZero(r) THEN Num(0) ELSE OhmsAcross(branches, i + 1, plusNum(siemens, invNum(r)))
LoadOhms == OhmsAlong(seriesItemsForCircuit(circuit))
SupplyElements(elements) ==
  SelectSeq(elements, LAMBDA e : e.id = ExternalSupplyId)

(* C21: for a tree of resistors and ammeters of resistance R > 0 between +
   and -, solveCircuit with a supply U > 0 injects one independent voltage
   source 'external_supply' from + to - and reports externalSupplyCurrentA
   = U / R, a positive value. *)
C21_AsClaimed ==
  (Solved /\ Supplied /\ Passive /\ greaterNum(LoadOhms, Num(0))) =>
    /\ facade.res.ok
    /\ LET sup == SupplyElements(facade.graph.elements)
       IN /\ Len(sup) = 1
          /\ sup[1].kind = "vsource" /\ sup[1].independent /\ sup[1].volts = facade.supply
          /\ sup[1].nPlus = facade.graph.plusNode /\ sup[1].nMinus = facade.graph.minusNode
    /\ "externalSupplyCurrentA" \in DOMAIN facade.res.result
    /\ facade.res.result.externalSupplyCurrentA = divNum(facade.supply, LoadOhms)

----------------------------------------------------------------------------
(* Vocabulary of the claims about the indices *)

Assigned == pc = "labels"
HasLabel(n) == "name" \in DOMAIN n /\ \E i \in 1..Len(n.name) : n.name[i] # Space
(* the number a label writes: its digits read as a decimal number *)
LabelNumber(n) ==
  LET digits == SelectSeq(n.name, LAMBDA ch : ch \in DigitChars)
  IN numberOf(digits, 1, Len(digits), 0)
IncludedOf(kind, includeGenerated) ==
  SelectSeq(TreeNodes, LAMBDA n : n.kind = kind /\ (includeGenerated \/ ~isGeneratedNode(n)))
LeastFree(taken) ==
  CHOOSE n \in 1..(Cardinality(taken) + 1) : n \notin taken /\ \A m \in 1..(n - 1) : m \in taken
IndicesAsClaimed(assigned, elems) ==
  LET idx(i) == getById(assigned.indexById, elems[i].id)
      claimed == {LabelNumber(elems[i]) : i \in {k \in 1..Len(elems) : HasLabel(elems[k])}}
      earlier(i) == {idx(j) : j \in {k \in 1..(i - 1) : ~HasLabel(elems[k])}}
  IN /\ Len(assigned.indexById) = Len(elems)
     /\ \A i \in 1..Len(elems) :
          /\ hasById(assigned.indexById, elems[i].id)
          /\ idx(i) >= 1
          /\ \A j \in 1..Len(elems) : i # j => idx(i) # idx(j)
          /\ IF HasLabel(elems[i]) THEN idx(i) = LabelNumber(elems[i])
             ELSE idx(i) = LeastFree(claimed \cup earlier(i))

(* C22: when assignResistorIndices or assignAmmeterIndices succeeds, distinct
   included elements have distinct positive indices, an element with a label
   has the index its label writes, and the unlabelled elements take, in the
   order of the visit, the smallest positive integer that no label and no
   earlier unlabelled element has claimed. *)
C22_IndicesAssigned ==
  Assigned =>
    /\ facade.resistors.ok =>
         IndicesAsClaimed(facade.resistors, IncludedOf("resistor", facade.includeGenerated))
    /\ facade.ammeters.ok => IndicesAsClaimed(facade.ammeters, IncludedOf("ammeter", TRUE))
(* an unlabelled resistor takes 3 because a label claims 2 and an earlier
   unlabelled resistor took 1 *)
C22_Witness ==
  /\ Assigned /\ facade.resistors.ok /\ facade.ammeters.ok
  /\ LET rs == IncludedOf("resistor", facade.includeGenerated)
     IN /\ \E i \in 1..Len(rs) : HasLabel(rs[i]) /\ getById(facade.resistors.indexById, rs[i].id) = 2
        /\ \E i \in 1..Len(rs) : ~HasLabel(rs[i]) /\ getById(facade.resistors.indexById, rs[i].id) = 3

(* the labels that stop solveCircuit: of the included elements of one kind,
   Misread hold a label that is not of the pattern, Zeroed a label of index 0,
   Shared the indices that two labels write *)
Labels(kind, includeGenerated) ==
  SelectSeq(IncludedOf(kind, includeGenerated), HasLabel)
Misread(elems, w) == {i \in 1..Len(elems) : parseIndex(elems[i].name, w.letters) = NoIndex}
Zeroed(elems, w) == {i \in 1..Len(elems) : parseIndex(elems[i].name, w.letters) = 0}
Shared(elems, w) ==
  {parseIndex(elems[i].name, w.letters) :
     i \in {k \in 1..Len(elems) :
              /\ parseIndex(elems[k].name, w.letters) > 0
              /\ \E j \in 1..Len(elems) :
                   j # k /\ parseIndex(elems[j].name, w.letters) = parseIndex(elems[k].name, w.letters)}}
LabelErrors(elems, w) ==
  {errInvalidLabel(w, trim(elems[i].name)) : i \in Misread(elems, w)}
    \cup {errInvalidIndex(w, 0) : i \in Zeroed(elems, w)}
    \cup {errDuplicateIndex(w, idx) : idx \in Shared(elems, w)}
AllLabelErrors ==
  LabelErrors(Labels("resistor", facade.includeGenerated), ResistorWords)
    \cup LabelErrors(Labels("ammeter", TRUE), AmmeterWords)

(* C23: when two included resistors, or two ammeters, hold labels of the same
   index, or an included element holds a label that is not of the pattern or
   writes index 0, solveCircuit returns the error of such a label and no
   result, and has called solveMna not once. *)
C23_LabelErrorFirst ==
  (Solved /\ AllLabelErrors # {}) =>
    /\ ~facade.res.ok
    /\ facade.res.error \in AllLabelErrors
    /\ facade.calls = <<>>
    /\ facade.stage = "labels"
(* two resistors write the same index *)
C23_Witness ==
  /\ Solved
  /\ Shared(Labels("resistor", facade.includeGenerated), ResistorWords) # {}
  /\ Misread(Labels("resistor", facade.includeGenerated), ResistorWords) = {}
  /\ ~facade.res.ok /\ facade.res.error = errDuplicateIndex(ResistorWords, 1)

Returned == Solved /\ facade.res.ok
IdSet(list) == {list[i].id : i \in 1..Len(list)}
TreeResistors == SelectSeq(TreeNodes, LAMBDA n : n.kind = "resistor")
Reported(includeGenerated) == SelectSeq(TreeResistors, LAMBDA n : includeGenerated \/ ~isGeneratedNode(n))
OnceEach(list, elems) ==
  /\ Len(list) = Len(elems)
  /\ \A i \in 1..Len(elems) : \E k \in 1..Len(list) : list[k].id = elems[i].id
SortedByIndex(list) == \A i \in 1..(Len(list) - 1) : list[i].index < list[i + 1].index

(* C24: without includeGeneratedResistors a generated resistor has no index,
   claims none even when it holds a label, and is not in result.resistors,
   while every other resistor is there once, in the order of the indices;
   with includeGeneratedResistors the generated resistors are indexed and
   reported as the others are. *)
C24_GeneratedLeftOut ==
  Returned =>
    LET r == facade.res.result
        shown == Reported(facade.includeGenerated)
    IN /\ OnceEach(r.resistors, shown)
       /\ SortedByIndex(r.resistors)
       /\ IdSet(r.resistorIndexById) = IdSet(shown)
       /\ IndicesAsClaimed([indexById |-> r.resistorIndexById], shown)
       /\ \A k \in 1..Len(r.resistors) :
            r.resistors[k].index = getById(r.resistorIndexById, r.resistors[k].id)
(* a generated resistor labelled R1 is left out and a resistor without a
   label takes the index 1 *)
C24_Witness ==
  /\ Returned /\ ~facade.includeGenerated
  /\ \E i \in 1..Len(TreeResistors) :
       /\ isGeneratedNode(TreeResistors[i]) /\ HasLabel(TreeResistors[i])
       /\ LabelNumber(TreeResistors[i]) = 1
  /\ \E k \in 1..Len(facade.res.result.resistors) :
       /\ facade.res.result.resistors[k].index = 1
       /\ ~HasLabel(facade.res.result.resistors[k])
  /\ Len(facade.res.result.resistors) = 2

----------------------------------------------------------------------------
(* Vocabulary of the claim about Circuit-JSON *)

Imported == pc = "imported"
Accepted == circuitSchema(imported.circuit).ok
(* a circuit that holds the lists of its route and no other *)
OwnListsOnly == JsLists(imported.circuit) = JsOwnLists(imported.circuit)
(* the circuit with the lists of its route, an absent one empty, and no other *)
OwnListsOf(c) ==
  Obj([key \in ({"kind", "id", "route"} \cup JsOwnLists(c)) |->
         IF key \in DOMAIN c.o THEN c.o[key] ELSE Arr(<<>>)])

(* C25 as stated: for every circuit that circuitSchema accepts,
   parseCircuitJson(exportCircuitJson(c)) succeeds and equals c. *)
C25_AsClaimed ==
  (Imported /\ Accepted) => imported.parsed.ok /\ imported.parsed.circuit = imported.circuit
(* C25: for every circuit that circuitSchema accepts,
   parseCircuitJson(exportCircuitJson(c)) succeeds and equals c with the lists
   of its route only, an absent one of them empty: it equals c when c holds
   exactly the lists of its route. *)
C25_RoundTripOfOwnLists ==
  (Imported /\ Accepted) =>
    /\ imported.parsed.ok
    /\ imported.parsed.circuit = OwnListsOf(imported.circuit)
    /\ OwnListsOnly => imported.parsed.circuit = imported.circuit
(* a U circuit with a named resistor on one segment comes back as it was *)
C25_Witness ==
  /\ Imported /\ Accepted /\ OwnListsOnly
  /\ imported.circuit.o.route.o.mode = Str("u")
  /\ \E key \in JsLists(imported.circuit) :
       \E i \in 1..Len(imported.circuit.o[key].xs) : has(imported.circuit.o[key].xs[i], "name")
  /\ imported.parsed.ok /\ imported.parsed.circuit = imported.circuit

----------------------------------------------------------------------------
(* Vocabulary of the claim about the bridge *)

EndsOf(e) == {buildIndexMap(nodeCircuit.nodes, e.a) + 1, buildIndexMap(nodeCircuit.nodes, e.b) + 1}
ResistorEdges == SelectSeq(nodeCircuit.edges, LAMBDA e : e.kind = "resistor")
SourceEdges == SelectSeq(nodeCircuit.edges, LAMBDA e : e.kind = "vsource")
(* five resistors, one on each arm, and nothing else but sources across the
   corners *)
IsBridge ==
  /\ Len(ResistorEdges) = Len(BridgeArms)
  /\ \A k \in 1..Len(BridgeArms) :
       \E i \in 1..Len(ResistorEdges) : EndsOf(ResistorEdges[i]) = {BridgeArms[k][1], BridgeArms[k][2]}
  /\ Len(ResistorEdges) + Len(SourceEdges) = Len(nodeCircuit.edges)
  /\ \A i \in 1..Len(SourceEdges) : EndsOf(SourceEdges[i]) = {BridgeCorners[1], BridgeCorners[2]}
ReducerReturned == pc \in {"done", "superposed"} /\ result # NoResult
AcrossCorners == {plus + 1, minus + 1} = {BridgeCorners[1], BridgeCorners[2]}

(* C26: on a Wheatstone bridge of five resistors with the terminals on its
   two corners, nodeCircuitToSeriesParallelCircuit returns the error "not
   reducible by series/parallel", and solveNodeCircuitBySuperposition on the
   bridge with a voltage source between + and - succeeds. *)
C26_BridgeSolvedNotReduced ==
  /\ (ReducerReturned /\ IsBridge /\ AcrossCorners) => result = Fail(ErrNotReducible)
  /\ (pc = "superposed" /\ IsBridge /\ Len(SourceEdges) = 1) => superposed.res.ok
(* the same bridge, unbalanced, refused by the reducer and solved *)
C26_Witness ==
  /\ pc = "superposed" /\ IsBridge /\ Len(SourceEdges) = 1
  /\ result = Fail(ErrNotReducible)
  /\ superposed.res.ok
  /\ \E i, j \in 1..Len(ResistorEdges) : ResistorEdges[i].val # ResistorEdges[j].val

----------------------------------------------------------------------------
(* Vocabulary of the claims about the store *)
InStore == pc = "store"
LiveOrNull(nc, id) == id = Null \/ id \in nodeIdsOf(nc)
EndpointsLive(nc) == \A i \in 1..Len(nc.edges) : nc.edges[i].a \in nodeIdsOf(nc) /\ nc.edges[i].b \in nodeIdsOf(nc)
TerminalsApart(nc) == nc.plusNodeId # Null /\ nc.minusNodeId # Null => nc.plusNodeId # nc.minusNodeId

(* C27: after any sequence of the store's node-circuit editing operations
   from the empty node circuit, every edge's a and b are existing nodes, and
   plusNodeId and minusNodeId are each null or an existing node, and differ
   when both are set *)
C27_NodeCircuitWellFormed ==
  InStore =>
    /\ EndpointsLive(nodeCircuit)
    /\ LiveOrNull(nodeCircuit, nodeCircuit.plusNodeId)
    /\ LiveOrNull(nodeCircuit, nodeCircuit.minusNodeId)
    /\ TerminalsApart(nodeCircuit)

(* both terminals set, an edge left, and a vertex or an edge removed before *)
C27_Witness ==
  /\ InStore
  /\ nodeCircuit.plusNodeId # Null /\ nodeCircuit.minusNodeId # Null
  /\ Len(nodeCircuit.edges) >= 1
  /\ Len(nodeCircuit.nodes) + Len(nodeCircuit.edges) < idCtr

(* two trees with the same route and, list by list, the same items once the
   identifiers of the blocks are erased *)
SameTree(c, d) ==
  /\ c.route = d.route
  /\ \A k \in rootLists(c) : EraseIds(c[k]) = EraseIds(d[k])

(* C28: the node/edge circuit is the only mutable source of truth of the
   store: whenever nodeCircuitError is null the stored tree is the tree
   converted from the current nodeCircuit, up to generated ids, and
   nodeCircuitError is non-null exactly when that conversion fails *)
C28_AsClaimed ==
  InStore =>
    Bind(deriveTreeCircuitFromNodeCircuit(nodeCircuit), LAMBDA derived :
      /\ (nodeCircuitError # NoError) <=> ~derived.ok
      /\ nodeCircuitError = NoError => SameTree(circuit, derived.circuit))

----------------------------------------------------------------------------
(* Vocabulary of the claim about the guard of the reducer loop *)
(* the edges that survive lines 200-215 of the call on the argument at hand *)
Surviving == Bind(canonicalize(nodeCircuit), LAMBDA c : IF c.ok THEN Len(c.edges) ELSE 0)
LoopEntered == pc \in {"loop", "done"} /\ Surviving > 0
Rewrites == pc = "loop" /\ pc' = "loop"

(* C29: every rewrite step of the reducer loop, a parallel merge or a series
   merge, strictly decreases the number of edges; so with E surviving edges
   the loop returns after at most E iterations, and never with
   'Reduction limit reached.' when E is at most 10,000 *)
C29_LoopShrinks ==
  /\ [][Rewrites => Len(edges') < Len(edges) /\ guard' = guard + 1]_vars
  /\ [](LoopEntered => /\ Len(edges) >= 1
                       /\ guard + Len(edges) <= Surviving
                       /\ guard + 1 <= Surviving
                       /\ (Surviving <= GuardLimit => result # Fail(ErrLimit)))

(* a call that returned a tree at its third iteration, after a parallel and
   a series merge *)
C29_Witness ==
  /\ pc = "done" /\ result.ok
  /\ guard = 2 /\ Surviving = 3

----------------------------------------------------------------------------
(* Vocabulary of the claim about the records and the resistors of a level *)
RecordsAt(i) == {LevelAt(i).reductions[k] : k \in 1..Len(LevelAt(i).reductions)}
ResistorOf(i, red) == {at \in NamedIn(LevelAt(i), red.eqName) : at.val = red.resultOhms}
NewResistors(i) == {at \in Introduced(i) : at.kind = "resistor"}

(* C30 as claimed: in every level of index 1 or more that
   computeReductionLevels returns, each reduction record names exactly one
   generated resistor of the level's tree, whose ohms are the record's
   resultOhms, and every resistor the level's tree holds and the tree of the
   level before does not has such a record *)
C30_AsClaimed ==
  Traced =>
    \A i \in 1..LastLevel :
      /\ \A red \in RecordsAt(i) :
           /\ Cardinality(NamedIn(LevelAt(i), red.eqName)) = 1
           /\ ResistorOf(i, red) = NamedIn(LevelAt(i), red.eqName)
      /\ \A at \in NewResistors(i) : \E red \in RecordsAt(i) : at \in ResistorOf(i, red)

====
